---- MODULE Spec2Model ----
(***************************************************************************)
(* A model of jsonyx's JSON patcher (src/src/jsonyx/patch.py): the query   *)
(* readers, the traverser, the filter evaluator and the patch executor.    *)
(*                                                                         *)
(* Query strings are sequences of one-character strings and are read       *)
(* character by character, at 0-based offsets as in the Python source.     *)
(* The document lives in a heap of containers addressed by identity, so    *)
(* that a node (target, key) is an address and not a copy.                 *)
(***************************************************************************)
EXTENDS Integers, Sequences, FiniteSets, TLC

VARIABLES heap,     \* the containers, by identity; heap[rootId] is the root wrapper
          pc,       \* number of operations the executor has taken from the batch
          status,   \* "ok" while running, else the name of the raised exception
          lastOp,   \* the operation taken last (NoOp before the first)
          prev,     \* the heap before the operation taken last
          init,     \* the heap the call started from
          entry,    \* the nodes the call starts from; in a loop, the nodes of its next turn
          result,   \* what the call returned; new_nodes while the expr of an assert is read
          loop,     \* the query being read: "path", "expr", or "" between operations
          cursor    \* the offset in that query which the loop has reached

vars == <<heap, pc, status, lastOp, prev, init, entry, result, loop, cursor>>

----------------------------------------------------------------------------
(* Bounds of the model *)

\* longest operation batch
MaxOps == 2
\* largest index written in a generated query: $[i] for i in -MaxIdx .. MaxIdx
MaxIdx == 1
\* longest list document [1, .., n]
MaxLen == 3
\* nesting depth followed by value equality before Python gives up
MaxDepth == 4

----------------------------------------------------------------------------
(* Strings *)

\* s[end:end + 1]
Ch(s, end) == IF end >= 0 /\ end < Len(s) THEN s[end + 1] ELSE ""

\* s[a:b] for 0 <= a
Sl(s, a, b) ==
    LET hi == IF b > Len(s) THEN Len(s) ELSE b
    IN  IF a >= hi THEN <<>> ELSE SubSeq(s, a + 1, hi)

Digits == {"0", "1", "2", "3", "4", "5", "6", "7", "8", "9"}

DigitVal(c) ==
    CASE c = "0" -> 0 [] c = "1" -> 1 [] c = "2" -> 2 [] c = "3" -> 3
      [] c = "4" -> 4 [] c = "5" -> 5 [] c = "6" -> 6 [] c = "7" -> 7
      [] c = "8" -> 8 [] c = "9" -> 9

\* offset after the longest run of digits starting at end (\d*)
RECURSIVE DigitsEnd(_, _)
DigitsEnd(s, end) ==
    IF Ch(s, end) \in Digits THEN DigitsEnd(s, end + 1) ELSE end

\* int() of an optionally signed run of digits
RECURSIVE DigitsToNat(_, _)
DigitsToNat(cs, acc) ==
    IF cs = <<>> THEN acc
    ELSE DigitsToNat(Tail(cs), 10 * acc + DigitVal(Head(cs)))

int(cs) ==
    IF cs # <<>> /\ Head(cs) = "-" THEN 0 - DigitsToNat(Tail(cs), 0)
    ELSE IF cs # <<>> /\ Head(cs) = "+" THEN DigitsToNat(Tail(cs), 0)
    ELSE DigitsToNat(cs, 0)

\* str() of an integer, as the callers of patch() write indices into queries
RECURSIVE NatToDigits(_)
NatToDigits(n) ==
    LET d == <<"0", "1", "2", "3", "4", "5", "6", "7", "8", "9">>[(n % 10) + 1]
    IN  IF n < 10 THEN <<d>> ELSE NatToDigits(n \div 10) \o <<d>>

str(n) == IF n < 0 THEN <<"-">> \o NatToDigits(0 - n) ELSE NatToDigits(n)

----------------------------------------------------------------------------
(* The regular expressions; each returns the offset after the match, or -1 *)

\* sys.maxsize, as of a build whose index-sized integers are 16 bits wide:
\* indices are only compared with lengths and clamped, and Python's integers
\* go beyond sys.maxsize, as the integers here go beyond maxsize
maxsize == 32767

\* -?(?:0|[1-9]\d*)
_match_int(s, end) ==
    LET p == IF Ch(s, end) = "-" THEN end + 1 ELSE end
    IN  IF Ch(s, p) = "0" THEN p + 1
        ELSE IF Ch(s, p) \in Digits THEN DigitsEnd(s, p + 1)
        ELSE -1

\* end|start|-?(?:0|[1-9]\d*)
_match_idx(s, end) ==
    IF Sl(s, end, end + 3) = <<"e", "n", "d">> THEN end + 3
    ELSE IF Sl(s, end, end + 5) = <<"s", "t", "a", "r", "t">> THEN end + 5
    ELSE _match_int(s, end)

KeyStops == {"!", "&", ".", "<", "=", ">", "[", "]", "~"}

\* [^!&.<=>[\]~]* (always matches, possibly the empty string)
RECURSIVE _match_key_chunk(_, _)
_match_key_chunk(s, end) ==
    IF end < Len(s) /\ Ch(s, end) \notin KeyStops
    THEN _match_key_chunk(s, end + 1) ELSE end

\* [^'~]*
RECURSIVE _match_str_chunk(_, _)
_match_str_chunk(s, end) ==
    IF end < Len(s) /\ Ch(s, end) \notin {"'", "~"}
    THEN _match_str_chunk(s, end + 1) ELSE end

\* ([eE][-+]?\d+)? from f on: the offset after it, f when it does not match
ExpEnd(s, f) ==
    IF Ch(s, f) \notin {"e", "E"} THEN f
    ELSE IF Ch(s, f + 1) \in {"-", "+"}
    THEN (IF Ch(s, f + 2) \in Digits THEN DigitsEnd(s, f + 2) ELSE f)
    ELSE (IF Ch(s, f + 1) \in Digits THEN DigitsEnd(s, f + 1) ELSE f)

\* (\.\d+)? from e1 on: the offset after it, e1 when it does not match
FracEnd(s, e1) ==
    IF Ch(s, e1) = "." /\ Ch(s, e1 + 1) \in Digits THEN DigitsEnd(s, e1 + 1)
    ELSE e1

\* the groups after the integer, which ends at e1, and after the fraction,
\* which ends at f
NumberGroups(s, e1, f) ==
    IF e1 < 0 THEN [integer |-> -1, frac |-> -1, exp |-> -1]
    ELSE [integer |-> e1, frac |-> f, exp |-> ExpEnd(s, f)]

\* (-?(?:0|[1-9]\d*))(\.\d+)?([eE][-+]?\d+)? : the offsets after each group,
\* a group that did not take part ending where the previous one ends
NumberFrac(s, e1) == NumberGroups(s, e1, IF e1 < 0 THEN -1 ELSE FracEnd(s, e1))

_match_number(s, idx) == NumberFrac(s, _match_int(s, idx))

----------------------------------------------------------------------------
(* Values, containers, keys and nodes *)

\* A JSON value. t is its kind; n the integer, the truth value (0/1), the
\* identity of the container (t = "ref") or the mantissa of a float, whose
\* value is n * 10^e; s the characters of a string.
Val(t, n, e, s) == [t |-> t, n |-> n, e |-> e, s |-> s]
NullV     == Val("null", 0, 0, <<>>)
BoolV(b)  == Val("bool", IF b THEN 1 ELSE 0, 0, <<>>)
IntV(n)   == Val("int", n, 0, <<>>)
FloatV(m, e) == Val("float", m, e, <<>>)
StrV(s)   == Val("str", 0, 0, s)
RefV(id)  == Val("ref", id, 0, <<>>)

\* A container: a list (items) or a dict (keys[i] maps to items[i], in
\* insertion order).
ListObj(items)       == [kind |-> "list", keys |-> <<>>, items |-> items]
DictObj(keys, items) == [kind |-> "dict", keys |-> keys, items |-> items]

\* A key: int | slice | str.  slice(i, stop, step), step = None when ~hasStep.
IntKey(i)   == [kt |-> "int", i |-> i, name |-> <<>>, stop |-> 0, step |-> 0,
                hasStep |-> FALSE]
StrKey(nm)  == [kt |-> "str", i |-> 0, name |-> nm, stop |-> 0, step |-> 0,
                hasStep |-> FALSE]
slice(a, b) == [kt |-> "slice", i |-> a, name |-> <<>>, stop |-> b, step |-> 0,
                hasStep |-> FALSE]
slice3(a, b, c) == [kt |-> "slice", i |-> a, name |-> <<>>, stop |-> b,
                    step |-> c, hasStep |-> TRUE]

\* A node (target, key): target is the identity of a container of the heap.
Node(target, key) == [target |-> target, key |-> key]

\* patch.py:364  root: list[Any] = [obj]  is the container with this identity
rootId == 1

\* Results of the readers: err is "ok" or the name of the exception raised.
Raise(e) == [err |-> e, key |-> <<>>, end |-> 0, val |-> NullV, nodes |-> <<>>,
             ids |-> <<>>]

IsOk(r) == r.err = "ok"

\* position of key nm in a dict's keys, 0 when absent
RECURSIVE KeyPos(_, _, _)
KeyPos(keys, nm, i) ==
    IF i > Len(keys) THEN 0
    ELSE IF keys[i] = nm THEN i
    ELSE KeyPos(keys, nm, i + 1)

HasKey(obj, nm) == KeyPos(obj.keys, nm, 1) # 0

\* -len(target) <= key < len(target)
InRange(obj, i) == 0 - Len(obj.items) <= i /\ i < Len(obj.items)

\* position (1-based) of list index i, for an index in range
ListPos(obj, i) == IF i < 0 THEN i + Len(obj.items) + 1 ELSE i + 1

\* The indices range(*slice.indices(len)) a slice addresses, in the slice's
\* order; the step must not be 0.
SliceStart(len, a, st) ==
    LET b == IF a < 0 THEN a + len ELSE a
    IN  IF st > 0 THEN (IF b < 0 THEN 0 ELSE IF b > len THEN len ELSE b)
        ELSE (IF b < 0 THEN -1 ELSE IF b >= len THEN len - 1 ELSE b)

RECURSIVE Range(_, _, _)
Range(a, b, st) ==
    IF (st > 0 /\ a >= b) \/ (st < 0 /\ a <= b) THEN <<>>
    ELSE <<a>> \o Range(a + st, b, st)

SliceStep(key) == IF key.hasStep THEN key.step ELSE 1

SliceIndices(len, key) ==
    LET st == SliceStep(key)
    IN  Range(SliceStart(len, key.i, st), SliceStart(len, key.stop, st), st)

\* the elements of seq at the 0-based indices idxs, in that order
RECURSIVE Pick(_, _)
Pick(seq, idxs) ==
    IF idxs = <<>> THEN <<>>
    ELSE <<seq[Head(idxs) + 1]>> \o Pick(seq, Tail(idxs))

SeqToSet(seq) == {seq[i] : i \in 1..Len(seq)}

\* seq without the elements at the 0-based indices in the set S
RECURSIVE DropAt(_, _, _)
DropAt(seq, S, i) ==
    IF i > Len(seq) THEN <<>>
    ELSE (IF (i - 1) \in S THEN <<>> ELSE <<seq[i]>>) \o DropAt(seq, S, i + 1)

----------------------------------------------------------------------------
(* The readers *)

\* a variant of _check_key that checks the key of a dict only
_check_key_of_dict(obj, key, allow_slice) ==
    IF obj.kind = "dict" /\ key.kt # "str" THEN "TypeError" ELSE "ok"

\* _check_key: "ok" or "TypeError"
_check_key(obj, key, allow_slice) ==
    IF obj.kind = "dict" /\ key.kt # "str" THEN "TypeError"
    ELSE IF obj.kind = "list" /\ allow_slice /\ key.kt = "str" THEN "TypeError"
    ELSE IF obj.kind = "list" /\ ~allow_slice /\ key.kt # "int" THEN "TypeError"
    ELSE "ok"

KeyEscapes == {"!", "&", ".", "<", "=", ">", "[", "]", "~"}

\* _get_key: the loop, chunks being what has been read so far
RECURSIVE _get_key_loop(_, _, _)
_get_key_loop(s, end0, chunks) ==
    LET end == _match_key_chunk(s, end0)
        got == chunks \o Sl(s, end0, end)
    IN  IF Ch(s, end) # "~" THEN [Raise("ok") EXCEPT !.key = got, !.end = end]
        ELSE IF end + 1 >= Len(s) THEN Raise("SyntaxError")
        ELSE IF Ch(s, end + 1) \notin KeyEscapes THEN Raise("SyntaxError")
        ELSE _get_key_loop(s, end + 2, got \o <<Ch(s, end + 1)>>)

_get_key(s, end) == _get_key_loop(s, end, <<>>)

\* target[key] for an int or str key: the value, or IndexError / KeyError
GetItem(obj, key) ==
    IF obj.kind = "list" THEN
        IF InRange(obj, key.i)
        THEN [Raise("ok") EXCEPT !.val = obj.items[ListPos(obj, key.i)]]
        ELSE Raise("IndexError")
    ELSE
        IF HasKey(obj, key.name)
        THEN [Raise("ok") EXCEPT !.val = obj.items[KeyPos(obj.keys, key.name, 1)]]
        ELSE Raise("KeyError")

\* the identities of the containers targets, or TypeError
TargetIds(targets) ==
    IF \E i \in 1..Len(targets) : targets[i].t # "ref" THEN Raise("TypeError")
    ELSE [Raise("ok") EXCEPT !.ids = [i \in 1..Len(targets) |-> targets[i].n]]

\* the identity of the container that r = target[key] read
TargetId(r) ==
    IF ~IsOk(r) THEN r
    ELSE IF r.val.t # "ref" THEN Raise("TypeError")
    ELSE [Raise("ok") EXCEPT !.ids = <<r.val.n>>]

\* _get_targets: the identities of the containers held at a node
_get_targets(h, node) ==
    IF _check_key(h[node.target], node.key, TRUE) # "ok" THEN Raise("TypeError")
    ELSE IF node.key.kt = "slice" THEN
        IF SliceStep(node.key) = 0 THEN Raise("ValueError")
        ELSE TargetIds(Pick(h[node.target].items,
                            SliceIndices(Len(h[node.target].items), node.key)))
    ELSE TargetId(GetItem(h[node.target], node.key))

\* _get_idx, for the match s[start:mend]
_get_idx(s, start, mend) ==
    LET group == Sl(s, start, mend)
    IN  IF group = <<"e", "n", "d">> THEN maxsize
        ELSE IF group = <<"s", "t", "a", "r", "t">> THEN 0 - maxsize - 1
        ELSE int(group)

\* _get_operator: the operator's name ("None" when there is none) and the
\* offset after it
_get_operator(s, end) ==
    IF Sl(s, end, end + 1) = <<"<">> THEN [operator |-> "lt", end |-> end + 1]
    ELSE IF Sl(s, end, end + 1) = <<"<", "=">> THEN [operator |-> "le", end |-> end + 2]
    ELSE IF Sl(s, end, end + 2) = <<"=", "=">> THEN [operator |-> "eq", end |-> end + 2]
    ELSE IF Sl(s, end, end + 2) = <<"!", "=">> THEN [operator |-> "ne", end |-> end + 2]
    ELSE IF Sl(s, end, end + 1) = <<">", "=">> THEN [operator |-> "ge", end |-> end + 2]
    ELSE IF Sl(s, end, end + 1) = <<">">> THEN [operator |-> "gt", end |-> end + 1]
    ELSE [operator |-> "None", end |-> end]

\* _get_str: the loop, from the offset after the opening quote
RECURSIVE _get_str_loop(_, _, _)
_get_str_loop(s, end0, chunks) ==
    LET end == _match_str_chunk(s, end0)
        got == chunks \o Sl(s, end0, end)
    IN  IF end >= Len(s) THEN Raise("SyntaxError")
        ELSE IF Ch(s, end) = "'"
        THEN [Raise("ok") EXCEPT !.val = StrV(got), !.end = end + 1]
        ELSE IF end + 1 >= Len(s) THEN Raise("SyntaxError")
        ELSE IF Ch(s, end + 1) \notin {"'", "~"} THEN Raise("SyntaxError")
        ELSE _get_str_loop(s, end + 2, got \o <<Ch(s, end + 1)>>)

_get_str(s, end) == _get_str_loop(s, end, <<>>)

RECURSIVE Pow10(_)
Pow10(k) == IF k <= 0 THEN 1 ELSE 10 * Pow10(k - 1)

Abs(n) == IF n < 0 THEN 0 - n ELSE n

\* number of decimal digits of n # 0
RECURSIVE NDigits(_)
NDigits(n) == IF Abs(n) < 10 THEN 1 ELSE 1 + NDigits(Abs(n) \div 10)

\* isinf(float(text)) for the float m * 10^e, m of at most 9 digits: the
\* largest finite float is 1.7976931348623157e308
isinf(m, e) ==
    /\ m # 0
    /\ \/ NDigits(m) + e > 309
       \/ /\ NDigits(m) + e = 309
          /\ Abs(m) * Pow10(9 - NDigits(m)) > 179769313

\* float(integer + frac + exp) as mantissa m and exponent e, or SyntaxError
\* when it is infinite
GetFloat(m, e, end) ==
    IF isinf(m, e) THEN Raise("SyntaxError")
    ELSE [Raise("ok") EXCEPT !.val = FloatV(m, e), !.end = end]

\* _get_value, for the groups integer, frac and exp of a number ending at end
GetNumber(integer, frac, exp, end) ==
    IF frac # <<>> \/ exp # <<>>
    THEN GetFloat(int(integer \o (IF frac = <<>> THEN <<>> ELSE Tail(frac))),
                  (IF exp = <<>> THEN 0 ELSE int(Tail(exp)))
                  - (IF frac = <<>> THEN 0 ELSE Len(frac) - 1),
                  end)
    ELSE [Raise("ok") EXCEPT !.val = IntV(int(integer)), !.end = end]

\* _get_value, from the number on, number being the match of _match_number
GetNumberOrInfinity(s, idx, number) ==
    IF number.integer >= 0
    THEN GetNumber(Sl(s, idx, number.integer),
                   Sl(s, number.integer, number.frac),
                   Sl(s, number.frac, number.exp), number.exp)
    ELSE IF Ch(s, idx) = "I"
            /\ Sl(s, idx, idx + 8) = <<"I", "n", "f", "i", "n", "i", "t", "y">>
    THEN [Raise("ok") EXCEPT !.val = Val("inf", 1, 0, <<>>), !.end = idx + 8]
    ELSE IF Ch(s, idx) = "-"
            /\ Sl(s, idx, idx + 9) = <<"-", "I", "n", "f", "i", "n", "i", "t", "y">>
    THEN [Raise("ok") EXCEPT !.val = Val("inf", -1, 0, <<>>), !.end = idx + 9]
    ELSE Raise("SyntaxError")

\* _get_value
_get_value(s, idx) ==
    IF idx >= Len(s) THEN Raise("SyntaxError")
    ELSE IF Ch(s, idx) = "'" THEN _get_str(s, idx + 1)
    ELSE IF Ch(s, idx) = "n" /\ Sl(s, idx, idx + 4) = <<"n", "u", "l", "l">>
    THEN [Raise("ok") EXCEPT !.val = NullV, !.end = idx + 4]
    ELSE IF Ch(s, idx) = "t" /\ Sl(s, idx, idx + 4) = <<"t", "r", "u", "e">>
    THEN [Raise("ok") EXCEPT !.val = BoolV(TRUE), !.end = idx + 4]
    ELSE IF Ch(s, idx) = "f" /\ Sl(s, idx, idx + 5) = <<"f", "a", "l", "s", "e">>
    THEN [Raise("ok") EXCEPT !.val = BoolV(FALSE), !.end = idx + 5]
    ELSE GetNumberOrInfinity(s, idx, _match_number(s, idx))

----------------------------------------------------------------------------
(* The comparison operators of module operator, on JSON values *)

\* the printable ASCII characters in code point order, from the space (32);
\* the double quote, the backslash and the backtick, which no query of the
\* model holds, are spelled out
Ascii == <<" ", "!", "QUOTE", "#", "$", "%", "&", "'", "(", ")", "*", "+", ",",
           "-", ".", "/", "0", "1", "2", "3", "4", "5", "6", "7", "8", "9",
           ":", ";", "<", "=", ">", "?", "@", "A", "B", "C", "D", "E", "F",
           "G", "H", "I", "J", "K", "L", "M", "N", "O", "P", "Q", "R", "S",
           "T", "U", "V", "W", "X", "Y", "Z", "[", "BACKSLASH", "]", "^", "_", "BACKTICK",
           "a", "b", "c", "d", "e", "f", "g", "h", "i", "j", "k", "l", "m",
           "n", "o", "p", "q", "r", "s", "t", "u", "v", "w", "x", "y", "z",
           "{", "|", "}", "~">>

ord(c) == 31 + (CHOOSE i \in 1..Len(Ascii) : Ascii[i] = c)

Sign(n) == IF n < 0 THEN -1 ELSE IF n > 0 THEN 1 ELSE 0

IsNumber(v) == v.t \in {"bool", "int", "float", "inf"}

\* -1, 0 or 1 as number a is less than, equal to or greater than number b
CmpNum(a, b) ==
    LET da == NDigits(a.n) + a.e
        db == NDigits(b.n) + b.e
        D  == IF NDigits(a.n) > NDigits(b.n) THEN NDigits(a.n) ELSE NDigits(b.n)
        ma == Abs(a.n) * Pow10(D - NDigits(a.n))
        mb == Abs(b.n) * Pow10(D - NDigits(b.n))
    IN  IF Sign(a.n) # Sign(b.n) THEN Sign(Sign(a.n) - Sign(b.n))
        ELSE IF a.n = 0 THEN 0
        ELSE IF a.t = "inf" \/ b.t = "inf" THEN
            IF a.t = b.t THEN 0
            ELSE IF a.t = "inf" THEN Sign(a.n) ELSE 0 - Sign(a.n)
        ELSE IF da # db THEN Sign(a.n) * Sign(da - db)
        ELSE Sign(a.n) * Sign(ma - mb)

\* -1, 0 or 1 as string a sorts before, with or after string b
RECURSIVE CmpStr(_, _)
CmpStr(a, b) ==
    IF a = <<>> \/ b = <<>> THEN Sign(Len(a) - Len(b))
    ELSE IF Head(a) # Head(b) THEN Sign(ord(Head(a)) - ord(Head(b)))
    ELSE CmpStr(Tail(a), Tail(b))

Truth(b) == [err |-> "ok", b |-> b]
Fail(e)  == [err |-> e, b |-> FALSE]

\* a == b; fuel is the nesting depth left
RECURSIVE PyEq(_, _, _, _)
RECURSIVE SeqEq(_, _, _, _, _)
RECURSIVE DictEq(_, _, _, _, _)
PyEq(h, a, b, fuel) ==
    IF IsNumber(a) /\ IsNumber(b) THEN Truth(CmpNum(a, b) = 0)
    ELSE IF a.t = "ref" /\ b.t = "ref" THEN
        IF a.n = b.n THEN Truth(TRUE)
        ELSE IF h[a.n].kind # h[b.n].kind THEN Truth(FALSE)
        ELSE IF Len(h[a.n].items) # Len(h[b.n].items) THEN Truth(FALSE)
        ELSE IF fuel = 0 THEN Fail("RecursionError")
        ELSE IF h[a.n].kind = "list"
        THEN SeqEq(h, h[a.n].items, h[b.n].items, 1, fuel - 1)
        ELSE DictEq(h, h[a.n], h[b.n], 1, fuel - 1)
    ELSE Truth(a = b)

\* r and what follows it: the first comparison that fails or is false decides
AndThen(r, rest) == IF r.err # "ok" \/ ~r.b THEN r ELSE rest

\* the items of two lists of one length are equal from position i on
SeqEq(h, xs, ys, i, fuel) ==
    IF i > Len(xs) THEN Truth(TRUE)
    ELSE AndThen(PyEq(h, xs[i], ys[i], fuel), SeqEq(h, xs, ys, i + 1, fuel))

\* every key of x from position i on is a key of y with an equal value
DictEq(h, x, y, i, fuel) ==
    IF i > Len(x.keys) THEN Truth(TRUE)
    ELSE IF ~HasKey(y, x.keys[i]) THEN Truth(FALSE)
    ELSE AndThen(PyEq(h, x.items[i], y.items[KeyPos(y.keys, x.keys[i], 1)], fuel),
                 DictEq(h, x, y, i + 1, fuel))

\* what an ordering operator makes of the outcome -1, 0 or 1
Ordered(op, c) ==
    CASE op = "lt" -> c < 0 [] op = "le" -> c <= 0
      [] op = "ge" -> c >= 0 [] op = "gt" -> c > 0

\* lt, le, ge, gt
RECURSIVE PyOrder(_, _, _, _, _)
RECURSIVE SeqOrder(_, _, _, _, _, _)
PyOrder(h, op, a, b, fuel) ==
    IF IsNumber(a) /\ IsNumber(b) THEN Truth(Ordered(op, CmpNum(a, b)))
    ELSE IF a.t = "str" /\ b.t = "str" THEN Truth(Ordered(op, CmpStr(a.s, b.s)))
    ELSE IF a.t = "ref" /\ b.t = "ref"
            /\ h[a.n].kind = "list" /\ h[b.n].kind = "list"
    THEN IF fuel = 0 THEN Fail("RecursionError")
         ELSE SeqOrder(h, op, h[a.n].items, h[b.n].items, 1, fuel - 1)
    ELSE Fail("TypeError")

\* the items at position i being equal or not (r), the order of two lists
SeqOrderNext(h, op, xs, ys, i, fuel, r) ==
    IF r.err # "ok" THEN r
    ELSE IF r.b THEN SeqOrder(h, op, xs, ys, i + 1, fuel)
    ELSE PyOrder(h, op, xs[i], ys[i], fuel)

\* lists compare by their first differing items, else by their lengths
SeqOrder(h, op, xs, ys, i, fuel) ==
    IF i > Len(xs) \/ i > Len(ys) THEN Truth(Ordered(op, Sign(Len(xs) - Len(ys))))
    ELSE SeqOrderNext(h, op, xs, ys, i, fuel, PyEq(h, xs[i], ys[i], fuel))

\* not r
Negate(r) == [r EXCEPT !.b = (r.err = "ok" /\ ~r.b)]

\* operator(a, b) for one of eq, ne, lt, le, ge, gt
Apply(h, op, a, b) ==
    IF op = "eq" THEN PyEq(h, a, b, MaxDepth)
    ELSE IF op = "ne" THEN Negate(PyEq(h, a, b, MaxDepth))
    ELSE PyOrder(h, op, a, b, MaxDepth)

----------------------------------------------------------------------------
(* The traverser and the filter evaluator *)

Min(a, b) == IF a < b THEN a ELSE b

\* the nodes (target, key) for the targets t of one node, before those of
\* the nodes after it
ExpandNext(t, key, rest) ==
    IF ~IsOk(t) THEN t
    ELSE IF ~IsOk(rest) THEN rest
    ELSE [rest EXCEPT !.nodes =
             [i \in 1..Len(t.ids) |-> Node(t.ids[i], key)] \o rest.nodes]

\* [(target, key) for node in nodes for target in _get_targets(node)]
RECURSIVE Expand(_, _, _)
Expand(h, nodes, key) ==
    IF nodes = <<>> THEN Raise("ok")
    ELSE ExpandNext(_get_targets(h, Head(nodes)), key,
                    Expand(h, Tail(nodes), key))

\* target.keys() if isinstance(target, dict) else range(len(target))
KeysOf(obj) ==
    IF obj.kind = "dict" THEN [i \in 1..Len(obj.keys) |-> StrKey(obj.keys[i])]
    ELSE [i \in 1..Len(obj.items) |-> IntKey(i - 1)]

\* [(target, key) for target in ids for key in keys of target]
RECURSIVE AllKeys(_, _)
AllKeys(h, ids) ==
    IF ids = <<>> THEN <<>>
    ELSE [i \in 1..Len(KeysOf(h[Head(ids)])) |->
             Node(Head(ids), KeysOf(h[Head(ids)])[i])]
         \o AllKeys(h, Tail(ids))

\* the nodes for every key of the targets t of one node, before those of the
\* nodes after it
ExpandAllNext(h, t, rest) ==
    IF ~IsOk(t) THEN t
    ELSE IF ~IsOk(rest) THEN rest
    ELSE [rest EXCEPT !.nodes = AllKeys(h, t.ids) \o rest.nodes]

\* [(target, key) for node in nodes for target in _get_targets(node)
\*  for key in (keys of target)]
RECURSIVE ExpandAll(_, _)
ExpandAll(h, nodes) ==
    IF nodes = <<>> THEN Raise("ok")
    ELSE ExpandAllNext(h, _get_targets(h, Head(nodes)),
                       ExpandAll(h, Tail(nodes)))

\* the slice read after "idx:", m2 being where the second index ends
BracketSlice(s, m, idx, m2) ==
    IF m2 < 0 THEN Raise("SyntaxError")
    ELSE IF Ch(s, m2) # ":"
    THEN [Raise("ok") EXCEPT !.key = slice(idx, _get_idx(s, m + 1, m2)),
                             !.end = m2]
    ELSE IF _match_int(s, m2 + 1) >= 0
    THEN [Raise("ok") EXCEPT
              !.key = slice3(idx, _get_idx(s, m + 1, m2),
                             int(Sl(s, m2 + 1, _match_int(s, m2 + 1)))),
              !.end = _match_int(s, m2 + 1)]
    ELSE Raise("SyntaxError")

\* the index or slice read after "[", for a match of _match_idx ending at m
BracketKey(s, end, m, single) ==
    IF Ch(s, m) # ":"
    THEN [Raise("ok") EXCEPT !.key = IntKey(_get_idx(s, end + 1, m)), !.end = m]
    ELSE IF single THEN Raise("SyntaxError")
    ELSE BracketSlice(s, m, _get_idx(s, end + 1, m), _match_idx(s, m + 1))

\* for target, key in nodes: _check_key(target, key, allow_slice=allow_slice)
CheckKeys(h, nodes, allow_slice) ==
    IF \E i \in 1..Len(nodes) :
           _check_key(h[nodes[i].target], nodes[i].key, allow_slice) # "ok"
    THEN "TypeError" ELSE "ok"

\* key in target if isinstance(target, dict) else -len(target) <= key < len(target)
Present(h, node) ==
    IF h[node.target].kind = "dict" THEN HasKey(h[node.target], node.key.name)
    ELSE InRange(h[node.target], node.key.i)

\* the pair (node, v) for the value v read at a node, before the pairs after it
PairsNext(node, v, rest) ==
    IF ~IsOk(v) THEN [err |-> v.err, pairs |-> <<>>]
    ELSE IF rest.err # "ok" THEN rest
    ELSE [rest EXCEPT !.pairs = <<[node |-> node, target |-> v.val]>> \o rest.pairs]

\* the pairs (node, target[key]) of a clause, from position i of the zip on
RECURSIVE Pairs(_, _, _, _, _)
Pairs(h, nodes, filter_nodes, negate_filter, i) ==
    IF i > Min(Len(nodes), Len(filter_nodes)) THEN [err |-> "ok", pairs |-> <<>>]
    ELSE IF Present(h, filter_nodes[i]) = negate_filter
    THEN Pairs(h, nodes, filter_nodes, negate_filter, i + 1)
    ELSE PairsNext(nodes[i],
                   GetItem(h[filter_nodes[i].target], filter_nodes[i].key),
                   Pairs(h, nodes, filter_nodes, negate_filter, i + 1))

\* the node of a pair, kept when the operator returned r, before the nodes
\* kept after it
KeepNext(node, r, rest) ==
    IF r.err # "ok" THEN Raise(r.err)
    ELSE IF ~IsOk(rest) THEN rest
    ELSE IF r.b THEN [rest EXCEPT !.nodes = <<node>> \o rest.nodes]
    ELSE rest

\* [node for node, target in pairs if operator(target, value)]
RECURSIVE KeepValue(_, _, _, _)
KeepValue(h, pairs, op, value) ==
    IF pairs = <<>> THEN Raise("ok")
    ELSE KeepNext(Head(pairs).node, Apply(h, op, Head(pairs).target, value),
                  KeepValue(h, Tail(pairs), op, value))

\* [node for (node, target), (target2, key) in zip(pairs, filter2_nodes)
\*  if (key present in target2) and operator(target, target2[key])]
RECURSIVE KeepQuery(_, _, _, _, _)
KeepQuery(h, pairs, filter2_nodes, op, i) ==
    IF i > Min(Len(pairs), Len(filter2_nodes)) THEN Raise("ok")
    ELSE IF ~Present(h, filter2_nodes[i])
    THEN KeepQuery(h, pairs, filter2_nodes, op, i + 1)
    ELSE KeepNext(pairs[i].node,
                  Apply(h, op, pairs[i].target,
                        GetItem(h[filter2_nodes[i].target],
                                filter2_nodes[i].key).val),
                  KeepQuery(h, pairs, filter2_nodes, op, i + 1))

RECURSIVE _traverse(_, _, _, _, _, _)
RECURSIVE _filter_nodes(_, _, _, _)

\* a variant of FilterAnd that returns the nodes the first clause kept
FilterAndFirstClause(h, s, end, r) ==
    IF ~IsOk(r) THEN r
    ELSE [Raise("ok") EXCEPT !.nodes = r.nodes, !.end = end]

\* _filter_nodes, after a clause kept the nodes of r and ended at end: the
\* next clause after "&&", or the result
FilterAnd(h, s, end, r) ==
    IF ~IsOk(r) THEN r
    ELSE IF Sl(s, end, end + 2) # <<"&", "&">>
    THEN [Raise("ok") EXCEPT !.nodes = r.nodes, !.end = end]
    ELSE _filter_nodes(h, r.nodes, s, end + 2)

\* _filter_nodes, after the second relative query resolved to t2
FilterQuery(h, s, p, o, t2) ==
    IF ~IsOk(t2) THEN t2
    ELSE FilterAnd(h, s, t2.end, KeepQuery(h, p.pairs, t2.nodes, o.operator, 1))

\* _filter_nodes, after the key k2 of the second relative query was read
FilterKey2(h, nodes, s, p, o, k2) ==
    IF ~IsOk(k2) THEN k2
    ELSE IF k2.key # <<"@">> THEN Raise("SyntaxError")
    ELSE FilterQuery(h, s, p, o, _traverse(h, nodes, s, k2.end, FALSE, TRUE))

\* _filter_nodes, after the value v to compare with was read
FilterValue(h, s, p, o, v) ==
    IF ~IsOk(v) THEN v
    ELSE FilterAnd(h, s, v.end, KeepValue(h, p.pairs, o.operator, v.val))

\* _filter_nodes, after the pairs p were built and the operator o was read
FilterOperator(h, nodes, s, negate_filter, p, o) ==
    IF p.err # "ok" THEN Raise(p.err)
    ELSE IF o.operator = "None"
    THEN FilterAnd(h, s, o.end,
                   [Raise("ok") EXCEPT
                        !.nodes = [i \in 1..Len(p.pairs) |-> p.pairs[i].node]])
    ELSE IF negate_filter THEN Raise("SyntaxError")
    ELSE IF Ch(s, o.end) # "@" THEN FilterValue(h, s, p, o, _get_value(s, o.end))
    ELSE FilterKey2(h, nodes, s, p, o, _get_key(s, o.end))

\* _filter_nodes, after the relative query resolved to t
FilterPairs(h, nodes, s, negate_filter, t) ==
    IF ~IsOk(t) THEN t
    ELSE FilterOperator(h, nodes, s, negate_filter,
                        Pairs(h, nodes, t.nodes, negate_filter, 1),
                        _get_operator(s, t.end))

\* _filter_nodes, after the key k of the relative query was read
FilterKey(h, nodes, s, negate_filter, k) ==
    IF ~IsOk(k) THEN k
    ELSE IF k.key # <<"@">> THEN Raise("SyntaxError")
    ELSE FilterPairs(h, nodes, s, negate_filter,
                     _traverse(h, nodes, s, k.end, FALSE, TRUE))

\* _filter_nodes: one clause and the clauses after it
_filter_nodes(h, nodes, s, end0) ==
    FilterKey(h, nodes, s, Ch(s, end0) = "!",
              _get_key(s, IF Ch(s, end0) = "!" THEN end0 + 1 ELSE end0))

\* _traverse, after a step resolved to the nodes of x: the next turn, from end
TraverseNext(h, s, end, allow_slice, single, x) ==
    IF ~IsOk(x) THEN x
    ELSE _traverse(h, x.nodes, s, end, allow_slice, single)

\* _traverse, after a bracket's step resolved to the nodes of x: the closing
\* bracket at end, then the next turn
TraverseClose(h, s, end, allow_slice, single, x) ==
    IF ~IsOk(x) THEN x
    ELSE IF end >= Len(s) THEN Raise("SyntaxError")
    ELSE IF Ch(s, end) # "]" THEN Raise("SyntaxError")
    ELSE _traverse(h, x.nodes, s, end + 1, allow_slice, single)

\* _traverse, after the key k of a property was read
TraverseProperty(h, nodes, s, allow_slice, single, k) ==
    IF ~IsOk(k) THEN k
    ELSE TraverseNext(h, s, k.end, allow_slice, single,
                      Expand(h, nodes, StrKey(k.key)))

\* the nodes of x, were their keys dereferenced: an index out of range raises
\* IndexError and a missing key raises KeyError
Dereferenced(h, x) ==
    IF ~IsOk(x) THEN x
    ELSE IF \E i \in 1..Len(x.nodes) :
                /\ x.nodes[i].key.kt = "int"
                /\ h[x.nodes[i].target].kind = "list"
                /\ ~InRange(h[x.nodes[i].target], x.nodes[i].key.i)
    THEN Raise("IndexError")
    ELSE x

\* a variant of TraverseKey that dereferences the key it read
TraverseKeyDereferenced(h, nodes, s, allow_slice, single, k) ==
    IF ~IsOk(k) THEN k
    ELSE TraverseClose(h, s, k.end, allow_slice, single,
                       Dereferenced(h, Expand(h, nodes, k.key)))

\* _traverse, after the index or slice k of a bracket was read
TraverseKey(h, nodes, s, allow_slice, single, k) ==
    IF ~IsOk(k) THEN k
    ELSE TraverseClose(h, s, k.end, allow_slice, single, Expand(h, nodes, k.key))

\* _traverse, after a filter kept the nodes of f
TraverseFiltered(h, s, allow_slice, single, f) ==
    TraverseClose(h, s, f.end, allow_slice, single, f)

\* _traverse, for a bracket holding a filter over the nodes of x
TraverseFilter(h, s, end, allow_slice, single, x) ==
    IF ~IsOk(x) THEN x
    ELSE TraverseFiltered(h, s, allow_slice, single,
                          _filter_nodes(h, x.nodes, s, end + 1))

\* _traverse, for a bracket, m being where a match of _match_idx ends
TraverseBracket(h, nodes, s, end, allow_slice, single, m) ==
    IF m >= 0
    THEN TraverseKey(h, nodes, s, allow_slice, single,
                     BracketKey(s, end, m, single))
    ELSE IF single THEN Raise("SyntaxError")
    ELSE TraverseFilter(h, s, end, allow_slice, single, ExpandAll(h, nodes))

\* _traverse: one turn of the loop and the turns after it
_traverse(h, nodes, s, end, allow_slice, single) ==
    IF Ch(s, end) = "."
    THEN TraverseProperty(h, nodes, s, allow_slice, single, _get_key(s, end + 1))
    ELSE IF Ch(s, end) = "["
    THEN TraverseBracket(h, nodes, s, end, allow_slice, single,
                         _match_idx(s, end + 1))
    ELSE IF CheckKeys(h, nodes, allow_slice) # "ok" THEN Raise("TypeError")
    ELSE [Raise("ok") EXCEPT !.nodes = nodes, !.end = end]

\* _traverser, after _traverse returned t
TraverserEnd(s, t) ==
    IF ~IsOk(t) THEN t
    ELSE IF t.end < Len(s) THEN Raise("SyntaxError")
    ELSE t

\* a variant of TraverserKey that takes any key for the entry symbol
TraverserKeyAny(h, nodes, s, allow_slice, k) ==
    IF ~IsOk(k) THEN k
    ELSE TraverserEnd(s, _traverse(h, nodes, s, k.end, allow_slice, FALSE))

\* _traverser, after the key k of the root was read
TraverserKey(h, nodes, s, allow_slice, k) ==
    IF ~IsOk(k) THEN k
    ELSE IF k.key # <<"$">> THEN Raise("SyntaxError")
    ELSE TraverserEnd(s, _traverse(h, nodes, s, k.end, allow_slice, FALSE))

\* _traverser
_traverser(h, nodes, s, allow_slice) ==
    TraverserKey(h, nodes, s, allow_slice, _get_key(s, 0))

----------------------------------------------------------------------------
(* The loops of the traverser and of the filter evaluator, one turn at a    *)
(* time: what a turn resolves to, and the offset it leaves the loop at.     *)

\* a turn that resolved to the nodes of x leaves the loop at end
TurnEnd(end, x) ==
    IF ~IsOk(x) THEN x
    ELSE [Raise("ok") EXCEPT !.nodes = x.nodes, !.end = end]

\* a turn of _traverse for a bracket, after its step resolved to the nodes of
\* x: the closing bracket at end
TurnClose(s, end, x) ==
    IF ~IsOk(x) THEN x
    ELSE IF end >= Len(s) THEN Raise("SyntaxError")
    ELSE IF Ch(s, end) # "]" THEN Raise("SyntaxError")
    ELSE TurnEnd(end + 1, x)

\* a turn of _traverse, after the key k of a property was read
TurnProperty(h, nodes, k) ==
    IF ~IsOk(k) THEN k
    ELSE TurnEnd(k.end, Expand(h, nodes, StrKey(k.key)))

\* a turn of _traverse, after the index or slice k of a bracket was read
TurnKey(h, nodes, s, k) ==
    IF ~IsOk(k) THEN k
    ELSE TurnClose(s, k.end, Expand(h, nodes, k.key))

\* a turn of _traverse, for a bracket holding a filter: f is what the filter
\* kept of the nodes of x
TurnFilter(s, x, f) ==
    IF ~IsOk(x) THEN x
    ELSE TurnClose(s, f.end, f)

\* one turn of the loop of _traverse, for a terminator "." or "[" at end
TraverseTurn(h, nodes, s, end, single) ==
    IF Ch(s, end) = "." THEN TurnProperty(h, nodes, _get_key(s, end + 1))
    ELSE IF _match_idx(s, end + 1) >= 0
    THEN TurnKey(h, nodes, s,
                 BracketKey(s, end, _match_idx(s, end + 1), single))
    ELSE IF single THEN Raise("SyntaxError")
    ELSE TurnFilter(s, ExpandAll(h, nodes),
                    _filter_nodes(h, ExpandAll(h, nodes).nodes, s, end + 1))

\* the last turn of the loop of _traverse, for anything else at end: the keys
\* are checked and the nodes returned
TraverseLast(h, nodes, end, allow_slice) ==
    IF CheckKeys(h, nodes, allow_slice) # "ok" THEN Raise("TypeError")
    ELSE [Raise("ok") EXCEPT !.nodes = nodes, !.end = end]

\* a turn of _filter_nodes, after the second relative query resolved to t2
ClauseQuery(h, p, o, t2) ==
    IF ~IsOk(t2) THEN t2
    ELSE TurnEnd(t2.end, KeepQuery(h, p.pairs, t2.nodes, o.operator, 1))

\* a turn of _filter_nodes, after the key k2 of the second relative query was
\* read
ClauseKey2(h, nodes, s, p, o, k2) ==
    IF ~IsOk(k2) THEN k2
    ELSE IF k2.key # <<"@">> THEN Raise("SyntaxError")
    ELSE ClauseQuery(h, p, o, _traverse(h, nodes, s, k2.end, FALSE, TRUE))

\* a turn of _filter_nodes, after the value v to compare with was read
ClauseValue(h, p, o, v) ==
    IF ~IsOk(v) THEN v
    ELSE TurnEnd(v.end, KeepValue(h, p.pairs, o.operator, v.val))

\* a turn of _filter_nodes, after the pairs p were built and the operator o
\* was read
ClauseOperator(h, nodes, s, negate_filter, p, o) ==
    IF p.err # "ok" THEN Raise(p.err)
    ELSE IF o.operator = "None"
    THEN TurnEnd(o.end,
                 [Raise("ok") EXCEPT
                      !.nodes = [i \in 1..Len(p.pairs) |-> p.pairs[i].node]])
    ELSE IF negate_filter THEN Raise("SyntaxError")
    ELSE IF Ch(s, o.end) # "@" THEN ClauseValue(h, p, o, _get_value(s, o.end))
    ELSE ClauseKey2(h, nodes, s, p, o, _get_key(s, o.end))

\* a turn of _filter_nodes, after the relative query resolved to t
ClausePairs(h, nodes, s, negate_filter, t) ==
    IF ~IsOk(t) THEN t
    ELSE ClauseOperator(h, nodes, s, negate_filter,
                        Pairs(h, nodes, t.nodes, negate_filter, 1),
                        _get_operator(s, t.end))

\* a turn of _filter_nodes, after the key k of the relative query was read
ClauseKey(h, nodes, s, negate_filter, k) ==
    IF ~IsOk(k) THEN k
    ELSE IF k.key # <<"@">> THEN Raise("SyntaxError")
    ELSE ClausePairs(h, nodes, s, negate_filter,
                     _traverse(h, nodes, s, k.end, FALSE, TRUE))

\* one turn of the loop of _filter_nodes, from end0: the nodes one clause
\* keeps and the offset after the clause
FilterTurn(h, nodes, s, end0) ==
    ClauseKey(h, nodes, s, Ch(s, end0) = "!",
              _get_key(s, IF Ch(s, end0) = "!" THEN end0 + 1 ELSE end0))

----------------------------------------------------------------------------
(* The mutations of the patch executor.  Each returns the heap it leaves and *)
(* "ok" or the exception it raised.                                          *)

Done(h)      == [err |-> "ok", heap |-> h]
Abort(h, e)  == [err |-> e, heap |-> h]

SetItems(h, id, items) == [h EXCEPT ![id].items = items]

IsList(h, v) == v.t = "ref" /\ h[v.n].kind = "list"
IsDict(h, v) == v.t = "ref" /\ h[v.n].kind = "dict"

\* list(value): the items an iterable yields, or TypeError
Iter(h, value) ==
    IF IsList(h, value) THEN [err |-> "ok", items |-> h[value.n].items]
    ELSE IF IsDict(h, value)
    THEN [err |-> "ok",
          items |-> [i \in 1..Len(h[value.n].keys) |-> StrV(h[value.n].keys[i])]]
    ELSE IF value.t = "str"
    THEN [err |-> "ok", items |-> [i \in 1..Len(value.s) |-> StrV(<<value.s[i]>>)]]
    ELSE [err |-> "TypeError", items |-> <<>>]

\* del target[key]
DelItem(h, node) ==
    LET obj == h[node.target]
        key == node.key
    IN  IF obj.kind = "list" THEN
            IF key.kt = "slice" THEN
                IF SliceStep(key) = 0 THEN Abort(h, "ValueError")
                ELSE Done(SetItems(h, node.target,
                         DropAt(obj.items,
                                SeqToSet(SliceIndices(Len(obj.items), key)), 1)))
            ELSE IF ~InRange(obj, key.i) THEN Abort(h, "IndexError")
            ELSE Done(SetItems(h, node.target,
                               DropAt(obj.items, {ListPos(obj, key.i) - 1}, 1)))
        ELSE IF ~HasKey(obj, key.name) THEN Abort(h, "KeyError")
        ELSE LET S == {KeyPos(obj.keys, key.name, 1) - 1}
             IN  Done([h EXCEPT ![node.target].keys = DropAt(obj.keys, S, 1),
                                ![node.target].items = DropAt(obj.items, S, 1)])

\* seq with seq[idxs[i] + 1] replaced by vals[i]
RECURSIVE PutAt(_, _, _)
PutAt(seq, idxs, vals) ==
    IF idxs = <<>> THEN seq
    ELSE PutAt([seq EXCEPT ![Head(idxs) + 1] = Head(vals)], Tail(idxs), Tail(vals))

\* target[key] = value
SetItem(h, node, value) ==
    LET obj == h[node.target]
        key == node.key
        len == Len(obj.items)
    IN  IF obj.kind = "list" THEN
            IF key.kt = "slice" THEN
                LET it   == Iter(h, value)
                    lo   == SliceStart(len, key.i, 1)
                    hi0  == SliceStart(len, key.stop, 1)
                    hi   == IF hi0 < lo THEN lo ELSE hi0
                    idxs == SliceIndices(len, key)
                IN  IF SliceStep(key) = 0 THEN Abort(h, "ValueError")
                    ELSE IF it.err # "ok" THEN Abort(h, it.err)
                    ELSE IF SliceStep(key) = 1
                    THEN Done(SetItems(h, node.target,
                                 SubSeq(obj.items, 1, lo) \o it.items
                                 \o SubSeq(obj.items, hi + 1, len)))
                    ELSE IF Len(it.items) # Len(idxs) THEN Abort(h, "ValueError")
                    ELSE Done(SetItems(h, node.target,
                                       PutAt(obj.items, idxs, it.items)))
            ELSE IF ~InRange(obj, key.i) THEN Abort(h, "IndexError")
            ELSE Done([h EXCEPT ![node.target].items[ListPos(obj, key.i)] = value])
        ELSE IF HasKey(obj, key.name)
        THEN Done([h EXCEPT
                      ![node.target].items[KeyPos(obj.keys, key.name, 1)] = value])
        ELSE Done([h EXCEPT ![node.target].keys = Append(obj.keys, key.name),
                            ![node.target].items = Append(obj.items, value)])

\* list.insert(target, key, value)
InsertItem(h, node, value) ==
    LET obj == h[node.target]
        len == Len(obj.items)
        i0  == IF node.key.i < 0 THEN node.key.i + len ELSE node.key.i
        i   == IF i0 < 0 THEN 0 ELSE IF i0 > len THEN len ELSE i0
    IN  IF obj.kind # "list" \/ node.key.kt # "int" THEN Abort(h, "TypeError")
        ELSE Done(SetItems(h, node.target,
                     SubSeq(obj.items, 1, i) \o <<value>>
                     \o SubSeq(obj.items, i + 1, len)))

\* list.append(target[key], value)
AppendItem(h, node, value) ==
    LET v == GetItem(h[node.target], node.key)
    IN  IF ~IsOk(v) THEN Abort(h, v.err)
        ELSE IF ~IsList(h, v.val) THEN Abort(h, "TypeError")
        ELSE Done(SetItems(h, v.val.n, Append(h[v.val.n].items, value)))

\* list.extend(target[key], value)
ExtendItem(h, node, value) ==
    LET v  == GetItem(h[node.target], node.key)
        it == Iter(h, value)
    IN  IF ~IsOk(v) THEN Abort(h, v.err)
        ELSE IF ~IsList(h, v.val) THEN Abort(h, "TypeError")
        ELSE IF it.err # "ok" THEN Abort(h, it.err)
        ELSE Done(SetItems(h, v.val.n, h[v.val.n].items \o it.items))

\* seq reversed
RECURSIVE Reversed(_)
Reversed(seq) ==
    IF seq = <<>> THEN <<>> ELSE Reversed(Tail(seq)) \o <<Head(seq)>>

\* list.reverse(target[key])
ReverseItem(h, node) ==
    LET v == GetItem(h[node.target], node.key)
    IN  IF ~IsOk(v) THEN Abort(h, v.err)
        ELSE IF ~IsList(h, v.val) THEN Abort(h, "TypeError")
        ELSE Done(SetItems(h, v.val.n, Reversed(h[v.val.n].items)))

\* new_target = target[key]; new_target.clear()
ClearItem(h, node) ==
    LET v == GetItem(h[node.target], node.key)
    IN  IF ~IsOk(v) THEN Abort(h, v.err)
        ELSE IF v.val.t # "ref" THEN Abort(h, "TypeError")
        ELSE Done([h EXCEPT ![v.val.n].keys = <<>>, ![v.val.n].items = <<>>])

\* a variant of Merge in which a key that is present moves behind the others
RECURSIVE MergeMoving(_, _, _, _)
MergeMoving(d, keys, items, i) ==
    IF i > Len(keys) THEN d
    ELSE MergeMoving(
             [d EXCEPT
                  !.keys = Append(DropAt(@, {KeyPos(d.keys, keys[i], 1) - 1}, 1),
                                  keys[i]),
                  !.items = Append(DropAt(@, {KeyPos(d.keys, keys[i], 1) - 1}, 1),
                                   items[i])],
             keys, items, i + 1)

\* d[k] = v for every (k, v) of keys and items, from position i on
RECURSIVE Merge(_, _, _, _)
Merge(d, keys, items, i) ==
    IF i > Len(keys) THEN d
    ELSE LET p == KeyPos(d.keys, keys[i], 1)
         IN  Merge(IF p # 0 THEN [d EXCEPT !.items[p] = items[i]]
                   ELSE [d EXCEPT !.keys = Append(d.keys, keys[i]),
                                  !.items = Append(d.items, items[i])],
                   keys, items, i + 1)

\* dict.update(d, pairs) for a sequence of pairs, from position i on: a pair
\* is a two-character string or a list of a string key and a value.  (A pair
\* with a hashable key that is no string is outside this model's dicts.)
RECURSIVE MergePairs(_, _, _, _)
MergePairs(h, id, pairs, i) ==
    LET e  == pairs[i]
        it == Iter(h, e)
    IN  IF i > Len(pairs) THEN Done(h)
        ELSE IF it.err # "ok" THEN Abort(h, "TypeError")
        ELSE IF Len(it.items) # 2 THEN Abort(h, "ValueError")
        ELSE IF it.items[1].t = "ref" THEN Abort(h, "TypeError")
        ELSE IF it.items[1].t # "str" THEN Abort(h, "Unmodelled")
        ELSE MergePairs([h EXCEPT ![id] = Merge(h[id], <<it.items[1].s>>,
                                                <<it.items[2]>>, 1)],
                        id, pairs, i + 1)

\* dict.update(target[key], value)
UpdateItem(h, node, value) ==
    LET v  == GetItem(h[node.target], node.key)
        it == Iter(h, value)
    IN  IF ~IsOk(v) THEN Abort(h, v.err)
        ELSE IF ~IsDict(h, v.val) THEN Abort(h, "TypeError")
        ELSE IF IsDict(h, value)
        THEN Done([h EXCEPT ![v.val.n] =
                      Merge(h[v.val.n], h[value.n].keys, h[value.n].items, 1)])
        ELSE IF it.err # "ok" THEN Abort(h, "TypeError")
        ELSE MergePairs(h, v.val.n, it.items, 1)

----------------------------------------------------------------------------
(* The patch executor *)

\* An operation record {"op": .., "path": .., "value": .., "expr": ..}
Operation(op, path, value, expr) ==
    [op |-> op, path |-> path, value |-> value, expr |-> expr]

NoOp == Operation("", <<>>, NullV, <<>>)

\* nodes: list[...] = [(root, 0)]
RootNodes == <<Node(rootId, IntKey(0))>>

\* a variant of ApplyNode without "if target is root: raise ValueError"
ApplyNodeAtRoot(h, op, node, value) ==
    CASE op = "append"  -> AppendItem(h, node, value)
      [] op = "clear"   -> ClearItem(h, node)
      [] op = "del"     -> DelItem(h, node)
      [] op = "extend"  -> ExtendItem(h, node, value)
      [] op = "insert"  -> InsertItem(h, node, value)
      [] op = "reverse" -> ReverseItem(h, node)
      [] op = "set"     -> SetItem(h, node, value)
      [] op = "update"  -> UpdateItem(h, node, value)

\* a variant of ApplyNode in which insert lacks "if target is root: raise
\* ValueError"
ApplyNodeInsertAtRoot(h, op, node, value) ==
    CASE op = "append"  -> AppendItem(h, node, value)
      [] op = "clear"   -> ClearItem(h, node)
      [] op = "del"     -> IF node.target = rootId THEN Abort(h, "ValueError")
                           ELSE DelItem(h, node)
      [] op = "extend"  -> ExtendItem(h, node, value)
      [] op = "insert"  -> InsertItem(h, node, value)
      [] op = "reverse" -> ReverseItem(h, node)
      [] op = "set"     -> SetItem(h, node, value)
      [] op = "update"  -> UpdateItem(h, node, value)

\* the body of one of the loops "for target, key in ...:" for one node
ApplyNode(h, op, node, value) ==
    CASE op = "append"  -> AppendItem(h, node, value)
      [] op = "clear"   -> ClearItem(h, node)
      [] op = "del"     -> IF node.target = rootId THEN Abort(h, "ValueError")
                           ELSE DelItem(h, node)
      [] op = "extend"  -> ExtendItem(h, node, value)
      [] op = "insert"  -> IF node.target = rootId THEN Abort(h, "ValueError")
                           ELSE InsertItem(h, node, value)
      [] op = "reverse" -> ReverseItem(h, node)
      [] op = "set"     -> SetItem(h, node, value)
      [] op = "update"  -> UpdateItem(h, node, value)

\* the rest of a loop "for target, key in ns:" after its body left r: the
\* first exception leaves the loop
RECURSIVE Each(_, _, _, _)
EachNext(op, ns, value, r) ==
    IF r.err # "ok" THEN r ELSE Each(r.heap, op, ns, value)

\* a loop "for target, key in ns:"
Each(h, op, ns, value) ==
    IF ns = <<>> THEN Done(h)
    ELSE EachNext(op, Tail(ns), value, ApplyNode(h, op, Head(ns), value))

\* a variant of Visit in which del visits the nodes in match order
VisitDelForward(op, ns) == IF op = "insert" THEN Reversed(ns) ELSE ns

\* a variant of Visit in which insert visits the nodes in match order
VisitInsertForward(op, ns) == IF op = "del" THEN Reversed(ns) ELSE ns

\* the order in which an operation visits the nodes of its path:
\* del and insert reverse them ([::-1])
Visit(op, ns) == IF op \in {"del", "insert"} THEN Reversed(ns) ELSE ns

KeyEq(a, b) ==
    /\ a.kt = b.kt
    /\ a.kt = "int" => a.i = b.i
    /\ a.kt = "str" => a.name = b.name
    /\ a.kt = "slice" => a = b

\* new_nodes == filtered_nodes, from position i on, for lists of one length
RECURSIVE NodesEq(_, _, _, _)
NodesEqNext(h, xs, ys, i, r) ==
    IF r.err # "ok" \/ ~r.b THEN r
    ELSE IF ~KeyEq(xs[i].key, ys[i].key) THEN Truth(FALSE)
    ELSE NodesEq(h, xs, ys, i + 1)

NodesEq(h, xs, ys, i) ==
    IF i > Len(xs) THEN Truth(TRUE)
    ELSE NodesEqNext(h, xs, ys, i,
                     PyEq(h, RefV(xs[i].target), RefV(ys[i].target), MaxDepth))

\* if new_nodes != filtered_nodes: raise ValueError
AssertSame(h, same) ==
    IF same.err # "ok" THEN Abort(h, same.err)
    ELSE IF ~same.b THEN Abort(h, "ValueError")
    ELSE Done(h)

\* the branch of op == "assert", new_nodes and filtered being what the
\* traverser and the filter evaluator returned
AssertNodes(h, operation, new_nodes, filtered) ==
    IF ~IsOk(new_nodes) THEN Abort(h, new_nodes.err)
    ELSE IF ~IsOk(filtered) THEN Abort(h, filtered.err)
    ELSE IF filtered.end < Len(operation.expr) THEN Abort(h, "SyntaxError")
    ELSE AssertSame(h, IF Len(new_nodes.nodes) # Len(filtered.nodes)
                       THEN Truth(FALSE)
                       ELSE NodesEq(h, new_nodes.nodes, filtered.nodes, 1))

\* the branch of op == "assert"
Assertion(h, operation) ==
    AssertNodes(h, operation,
                _traverser(h, RootNodes, operation.path, FALSE),
                _filter_nodes(h, RootNodes, operation.expr, 0))

OpNames == {"append", "assert", "clear", "del", "extend", "insert", "reverse",
            "set", "update"}

\* the loop of an operation over the nodes ns its path resolved to
ApplyNodes(h, operation, ns) ==
    IF ~IsOk(ns) THEN Abort(h, ns.err)
    ELSE Each(h, operation.op, Visit(operation.op, ns.nodes), operation.value)

\* a variant of ApplyOperation that skips an operation of an unknown name
ApplyOperationSkipping(h, operation) ==
    IF operation.op = "assert" THEN Assertion(h, operation)
    ELSE IF operation.op \in OpNames
    THEN ApplyNodes(h, operation,
                    _traverser(h, RootNodes, operation.path,
                               operation.op \in {"del", "set"}))
    ELSE Done(h)

\* a variant of ApplyOperation in which every operation but assert allows
\* slices
ApplyOperationSlicing(h, operation) ==
    IF operation.op = "assert" THEN Assertion(h, operation)
    ELSE IF operation.op \in OpNames
    THEN ApplyNodes(h, operation, _traverser(h, RootNodes, operation.path, TRUE))
    ELSE Abort(h, "ValueError")

\* one turn of "for operation in operations:"
ApplyOperation(h, operation) ==
    IF operation.op = "assert" THEN Assertion(h, operation)
    ELSE IF operation.op \in OpNames
    THEN ApplyNodes(h, operation,
                    _traverser(h, RootNodes, operation.path,
                               operation.op \in {"del", "set"}))
    ELSE Abort(h, "ValueError")

\* root = [obj], for the document obj that a call left as root[0] of h: the
\* heap the next call starts from
Rewrapped(h) == [h EXCEPT ![rootId] = ListObj(<<h[rootId].items[1]>>)]

\* for operation in operations: the loop of patch() as a whole, r being what the
\* operations before left
RECURSIVE PatchAll(_, _)
PatchAll(r, operations) ==
    IF operations = <<>> \/ r.err # "ok" THEN r
    ELSE PatchAll(ApplyOperation(r.heap, Head(operations)), Tail(operations))

----------------------------------------------------------------------------
(* The inputs: documents, queries and operations *)

\* The heap patch() starts from: the root wrapper [obj], then the two
\* containers the operations carry as "value", then the document's own.
valList == 2
valDict == 3
docId   == 4

Heap(obj, containers) ==
    <<ListObj(<<obj>>), ListObj(<<IntV(7)>>),
      DictObj(<<<<"c">>, <<"b">>>>, <<IntV(8), IntV(7)>>)>>
    \o containers

\* the list [1, .., n]
Iota(n) == ListObj([i \in 1..n |-> IntV(i)])

Documents ==
    {Heap(RefV(docId), <<Iota(n)>>) : n \in 0..MaxLen}
    \cup
    {\* 5
     Heap(IntV(5), <<>>),
     \* {"a": 1}
     Heap(RefV(docId), <<DictObj(<<<<"a">>>>, <<IntV(1)>>)>>),
     \* {"a": 1, "b": 2}
     Heap(RefV(docId), <<DictObj(<<<<"a">>, <<"b">>>>, <<IntV(1), IntV(2)>>)>>),
     \* [[1, 2], [3]]
     Heap(RefV(docId), <<ListObj(<<RefV(docId + 1), RefV(docId + 2)>>),
                         ListObj(<<IntV(1), IntV(2)>>), ListObj(<<IntV(3)>>)>>),
     \* {"a": [1, 2], "b": {"a": 1}}
     Heap(RefV(docId), <<DictObj(<<<<"a">>, <<"b">>>>,
                                 <<RefV(docId + 1), RefV(docId + 2)>>),
                         ListObj(<<IntV(1), IntV(2)>>),
                         DictObj(<<<<"a">>>>, <<IntV(1)>>)>>)}

\* "$[" + str(i) + "]"
IndexQuery(i) == <<"$", "[">> \o str(i) \o <<"]">>

IndexQueries == {IndexQuery(i) : i \in (0 - MaxIdx)..MaxIdx}

\* slices
SliceQueries ==
    {<<"$", "[", "0", ":", "2", "]">>,   \* $[0:2]
     <<"$", "[", "1", ":", "3", "]">>,   \* $[1:3]
     <<"$", "[", "0", ":", "3", ":", "2", "]">>,   \* $[0:3:2]
     <<"$", "[", "2", ":", "0", ":", "-", "1", "]">>,   \* $[2:0:-1]
     <<"$", "[", "s", "t", "a", "r", "t", ":", "e", "n", "d", "]">>,   \* $[start:end]
     <<"$", "[", "0", ":", "2", ":", "0", "]">>}   \* $[0:2:0]

\* slices without a start, a stop or a step
OpenSliceQueries ==
    {<<"$", "[", ":", "]">>,   \* $[:]
     <<"$", "[", "1", ":", "]">>,   \* $[1:]
     <<"$", "[", ":", "1", "]">>,   \* $[:1]
     <<"$", "[", ":", ":", "-", "1", "]">>,   \* $[::-1]
     <<"$", "[", "0", ":", "1", ":", "]">>}   \* $[0:1:]

\* the least integer beyond sys.maxsize
TooBig == maxsize + 1

\* an index, a start, a stop and a step beyond sys.maxsize, and an index and
\* a step beyond -sys.maxsize - 1
TooBigQueries ==
    {IndexQuery(TooBig),
     <<"$", "[">> \o str(TooBig) \o <<":", "1", "]">>,
     <<"$", "[", "0", ":">> \o str(TooBig) \o <<"]">>,
     <<"$", "[", "0", ":", "1", ":">> \o str(TooBig) \o <<"]">>,
     IndexQuery(0 - TooBig - 1),
     <<"$", "[", "0", ":", "1", ":">> \o str(0 - TooBig - 1) \o <<"]">>}

\* queries of one step, which resolve to one node
StepPrefixes ==
    {<<"$">>,   \* $
     <<"$", "[", "0", "]">>,   \* $[0]
     <<"$", ".", "a">>,   \* $.a
     <<"$", ".", "b">>}   \* $.b

\* a property, an index and a slice
PropertySteps == {<<".", "a">>}
BracketSteps == {<<"[", "0", "]">>, <<"[", "0", ":", "2", "]">>}

\* nothing, a property and an index
StepTails == {<<>>, <<".", "b">>, <<"[", "0", "]">>}

\* a prefix, then a step, then a tail
StepQueries ==
    {prefix \o step \o tail : prefix \in StepPrefixes,
                              step \in PropertySteps \cup BracketSteps,
                              tail \in StepTails}

\* filters
FilterQueries ==
    {<<"$", "[", "@", "]">>,   \* $[@]
     <<"$", "[", "!", "@", "]">>,   \* $[!@]
     <<"$", "[", "@", ">", "1", "]">>,   \* $[@>1]
     <<"$", "[", "@", "<", "3", "]">>,   \* $[@<3]
     <<"$", "[", "@", "=", "=", "1", "]">>,   \* $[@==1]
     <<"$", "[", "@", "!", "=", "2", "]">>,   \* $[@!=2]
     <<"$", "[", "@", "<", "=", "1", "]">>,   \* $[@<=1]
     <<"$", "[", "@", ">", "=", "2", "]">>,   \* $[@>=2]
     <<"$", "[", "@", " ", ">", " ", "1", "]">>,   \* $[@ > 1]
     <<"$", "[", "@", ">", "1", "&", "&", "@", "<", "3", "]">>}   \* $[@>1&&@<3]

\* the root, properties and longer paths
DeepQueries ==
    {<<"$">>,   \* $
     <<"$", ".", "a", "[", "0", ":", "1", "]">>,   \* $.a[0:1]
     <<"$", ".", "a">>,   \* $.a
     <<"$", ".", "b">>,   \* $.b
     <<"$", "[", "0", "]", "[", "0", "]">>,   \* $[0][0]
     <<"$", "[", "@", "]", "[", "0", "]">>,   \* $[@][0]
     <<"$", ".", "a", "[", "@", ">", "1", "]">>}   \* $.a[@>1]

\* queries the grammar rejects
BadQueries ==
    {<<>>,   \* (empty)
     <<"@">>,   \* @
     <<"$", "[", "0">>,   \* $[0
     <<"$", " ", "$">>}   \* $ $

Paths == IndexQueries \cup SliceQueries \cup FilterQueries \cup DeepQueries
         \cup BadQueries

\* the "expr" of assert operations
Exprs ==
    {<<"@">>,   \* @
     <<"!", "@">>,   \* !@
     <<"@", "=", "=", "1">>,   \* @==1
     <<"@", "=", "=", "2">>,   \* @==2
     <<"@", "<", "=", "1">>,   \* @<=1
     <<"@", ".", "a", "=", "=", "1">>}   \* @.a==1

\* the characters of a comparison operator
OpChars(op) ==
    CASE op = "lt" -> <<"<">> [] op = "le" -> <<"<", "=">>
      [] op = "eq" -> <<"=", "=">> [] op = "ne" -> <<"!", "=">>
      [] op = "ge" -> <<">", "=">> [] op = "gt" -> <<">">>

CmpOps == {"lt", "le", "eq", "ne", "ge", "gt"}

\* "@" + op + str(n), with a space on both sides of the operator if spaced
CmpQuery(op, n, spaced) ==
    <<"@">> \o (IF spaced THEN <<" ">> ELSE <<>>) \o OpChars(op)
    \o (IF spaced THEN <<" ">> ELSE <<>>) \o str(n)

\* the integer literals of the comparisons of the model
Literals == (0 - MaxIdx)..(MaxIdx + 1)

CmpQueries == {CmpQuery(op, n, spaced) : op \in CmpOps, n \in Literals,
                                         spaced \in BOOLEAN}

\* the clauses of the conjunctions of the model
Clauses ==
    {<<"@">>,   \* @
     <<"@", ">", "1">>,   \* @>1
     <<"@", "<", "3">>,   \* @<3
     <<"@", "=", "=", "1">>,   \* @==1
     <<"@", "!", "=", "2">>,   \* @!=2
     <<"@", ".", "a", "=", "=", "1">>}   \* @.a==1

\* the sequences of clauses of the conjunctions of the model: every pair, and
\* the triples of three of the clauses
Chains ==
    {<<c1, c2>> : c1 \in Clauses, c2 \in Clauses}
    \cup {<<c1, c2, c3>> : c1 \in {<<"@">>, <<"@", "!", "=", "2">>},
                           c2 \in {<<"@">>, <<"@", ">", "1">>},
                           c3 \in {<<"@", "<", "3">>, <<"@", "=", "=", "1">>}}

\* the clauses of cs joined by "&&", with a space on both sides of each "&&"
\* if spaced
RECURSIVE AndQuery(_, _)
AndQuery(cs, spaced) ==
    IF Len(cs) = 1 THEN Head(cs)
    ELSE Head(cs) \o (IF spaced THEN <<" ">> ELSE <<>>) \o <<"&", "&">>
         \o (IF spaced THEN <<" ">> ELSE <<>>) \o AndQuery(Tail(cs), spaced)

AndQueries == {AndQuery(cs, spaced) : cs \in Chains, spaced \in BOOLEAN}

\* "!" + a comparison with 0: a negated presence test with an operator
NegatedComparisons ==
    {<<"!">> \o CmpQuery(op, 0, spaced) : op \in CmpOps, spaced \in BOOLEAN}

\* "@" + op + "Infinity" or "-Infinity"
InfinityQuery(op, negative) ==
    <<"@">> \o OpChars(op) \o (IF negative THEN <<"-">> ELSE <<>>)
    \o <<"I", "n", "f", "i", "n", "i", "t", "y">>

\* comparisons with Infinity and -Infinity
InfinityQueries ==
    {InfinityQuery(op, negative) : op \in {"lt", "eq", "ne", "gt"},
                                   negative \in BOOLEAN}

\* "@." + k1 + op + "@." + k2
PairQuery(k1, op, k2) ==
    <<"@", ".">> \o k1 \o OpChars(op) \o <<"@", ".">> \o k2

\* the keys and the operators of the comparisons of two relative queries
PairKeys == {<<"a">>, <<"b">>}
PairOps == {"lt", "eq", "ne", "gt"}

PairQueries ==
    {PairQuery(k1, op, k2) : k1 \in PairKeys, op \in PairOps, k2 \in PairKeys}

\* literals of each kind of value, with the kind Python compares them as
KindLiterals ==
    {[text |-> <<"1">>, kind |-> "number"],   \* 1
     [text |-> <<"1", ".", "5">>, kind |-> "number"],   \* 1.5
     [text |-> <<"t", "r", "u", "e">>, kind |-> "number"],   \* true
     [text |-> <<"n", "u", "l", "l">>, kind |-> "null"],   \* null
     [text |-> <<"'", "a", "'">>, kind |-> "str"]}   \* 'a'

\* "@" + op + literal
KindQuery(op, text) == <<"@">> \o OpChars(op) \o text

KindQueries == {KindQuery(op, lit.text) : op \in CmpOps, lit \in KindLiterals}

\* "$[" + query + "]"
BracketQuery(query) == <<"$", "[">> \o query \o <<"]">>

\* the "value" of operations: 7, the list [7] and the dict {"c": 8, "b": 7}
Values == {IntV(7), RefV(valList), RefV(valDict)}

\* the paths of the assert operations of the model
AssertPaths ==
    {<<"$">>, <<"$", ".", "a">>, <<"$", "[", "0", "]">>, <<"$", "[", "@", "]">>,
     <<"$", "[", "0", ":", "2", "]">>, <<"$", ".", "a", "[", "0", ":", "1", "]">>}

Operations ==
    {Operation(op, path, value, <<>>) :
        op \in {"append", "extend", "insert", "set", "update"},
        path \in Paths, value \in Values}
    \cup
    {Operation(op, path, NullV, <<>>) :
        op \in {"clear", "del", "reverse", "move"}, path \in Paths}
    \cup
    {Operation("assert", path, NullV, expr) : path \in AssertPaths, expr \in Exprs}

\* the operations of the batches of the model
BatchPaths == {<<"$">>, IndexQuery(0), <<"$", "[", "@", "]">>}

BatchOperations ==
    {o \in Operations : /\ o.path \in BatchPaths
                        /\ o.value # RefV(valDict)
                        /\ o.expr \in {<<>>, <<"@">>}}
    \cup {Operation("update", <<"$">>, RefV(valDict), <<>>)}

----------------------------------------------------------------------------
(* The patch executor as a state machine: one step per operation *)

\* what a call returned; None until it returns
NoResult == NullV

Init ==
    /\ heap \in Documents
    /\ init = heap
    /\ prev = heap
    /\ pc = 0
    /\ status = "ok"
    /\ lastOp = NoOp
    /\ entry = RootNodes
    /\ result = NoResult
    /\ loop = ""
    /\ cursor = 0

\* the loop goes on to the next operation: no exception has left patch()
Running == status = "ok"

\* a variant of Outcome that restores the document patch() was given when an
\* exception is raised
OutcomeRolledBack(r) ==
    heap' = (IF r.err = "ok" THEN r.heap ELSE init) /\ status' = r.err

\* a loop over nodes left the document as r.heap, with the exception r.err
\* if one was raised
Outcome(r) == heap' = r.heap /\ status' = r.err

\* a call returned the nodes r.nodes, or raised the exception r.err
Returned(r) == status' = r.err /\ result' = r.nodes

\* a variant of Step that resolves the path against the document patch() was
\* given
StepFromInit(operation) ==
    /\ Running
    /\ pc < MaxOps
    /\ Outcome(ApplyOperation(init, operation))
    /\ pc' = pc + 1
    /\ lastOp' = operation
    /\ prev' = heap
    /\ UNCHANGED <<init, entry, result, loop, cursor>>

\* for operation in operations: one turn, for the next operation of the batch
Step(operation) ==
    /\ Running
    /\ pc < MaxOps
    /\ Outcome(ApplyOperation(heap, operation))
    /\ pc' = pc + 1
    /\ lastOp' = operation
    /\ prev' = heap
    /\ UNCHANGED <<init, entry, result, loop, cursor>>

\* return root[0], after the last operation of the batch
Return ==
    /\ Running
    /\ status' = "returned"
    /\ result' = heap[rootId].items[1]
    /\ UNCHANGED <<heap, pc, lastOp, prev, init, entry, loop, cursor>>

\* patch() on a batch of at most MaxOps operations
Next ==
    \/ \E operation \in BatchOperations : Step(operation)
    \/ Return

Spec == Init /\ [][Next]_vars

\* patch() on a single operation record
OpNext ==
    \/ \E operation \in Operations : pc = 0 /\ Step(operation)
    \/ Return

OpSpec == Init /\ [][OpNext]_vars

----------------------------------------------------------------------------
(* Selecting: the traverser run from the root node on its own *)

\* indices of more than one digit
WideIdx == {0 - 10 * MaxIdx - 1, 10 * MaxIdx, 10 * MaxIdx + 1}

\* queries no grammar of paths accepts: $[0][0 lacks the closing bracket,
\* $.a.b[ ends where a key is expected, $[0]x goes on after the last step,
\* $[@ lacks the closing bracket of a filter
MalformedQueries ==
    { <<"$", "[", "0", "]", "[", "0">>,
      <<"$", ".", "a", ".", "b", "[">>,
      <<"$", "[", "0", "]", "x">>,
      <<"$", "[", "@">> }

SelectQueries ==
    Paths \cup {IndexQuery(i) : i \in WideIdx}
    \cup {BracketQuery(query) : query \in CmpQueries}
    \cup OpenSliceQueries \cup TooBigQueries \cup StepQueries
    \cup MalformedQueries

\* selecting query from the root node ([d], 0)
Select(query, allow_slice) ==
    /\ pc = 0
    /\ Running
    /\ Returned(_traverser(heap, entry, query, allow_slice))
    /\ pc' = 1
    /\ lastOp' = Operation("select", query, BoolV(allow_slice), <<>>)
    /\ UNCHANGED <<heap, prev, init, entry, loop, cursor>>

\* for target, key in <the selected nodes>: target[key] = None
WriteThrough ==
    /\ pc = 1
    /\ Running
    /\ lastOp.op = "select"
    /\ Outcome(Each(heap, "set", result, NullV))
    /\ pc' = 2
    /\ prev' = heap
    /\ UNCHANGED <<lastOp, init, entry, result, loop, cursor>>

SelectNext ==
    \/ \E query \in SelectQueries, allow_slice \in BOOLEAN : Select(query, allow_slice)
    \/ WriteThrough

SelectSpec == Init /\ [][SelectNext]_vars

----------------------------------------------------------------------------
(* Filtering: the filter evaluator run on a list of candidate nodes *)

CandidateKeys ==
    {IntKey(i) : i \in (0 - MaxIdx)..MaxIdx} \cup {StrKey(<<"a">>), StrKey(<<"b">>)}

\* the containers of a document: the root wrapper and the document's own
Containers(h) == {rootId} \cup docId..Len(h)

\* one node, or every key of one container in the container's order
Candidates(h) ==
    {<<Node(t, k)>> : t \in Containers(h), k \in CandidateKeys}
    \cup {AllKeys(h, <<t>>) : t \in Containers(h)}

FilterExprs ==
    Exprs \cup CmpQueries \cup AndQueries \cup NegatedComparisons
    \cup InfinityQueries \cup PairQueries \cup KindQueries

\* the documents of the candidate nodes: those of patch(), lists of dicts and a
\* list of None, a str and a bool
FilterDocuments ==
    Documents
    \cup
    {\* [{"b": 1}, {"a": 2, "b": 2}]
     Heap(RefV(docId), <<ListObj(<<RefV(docId + 1), RefV(docId + 2)>>),
                         DictObj(<<<<"b">>>>, <<IntV(1)>>),
                         DictObj(<<<<"a">>, <<"b">>>>, <<IntV(2), IntV(2)>>)>>),
     \* [None, "a", True]
     Heap(RefV(docId), <<ListObj(<<NullV, StrV(<<"a">>), BoolV(TRUE)>>)>>),
     \* [{"a": 1, "b": 2}, {"a": 2}, {"a": 1, "b": 1}]
     Heap(RefV(docId), <<ListObj(<<RefV(docId + 1), RefV(docId + 2),
                                   RefV(docId + 3)>>),
                         DictObj(<<<<"a">>, <<"b">>>>, <<IntV(1), IntV(2)>>),
                         DictObj(<<<<"a">>>>, <<IntV(2)>>),
                         DictObj(<<<<"a">>, <<"b">>>>, <<IntV(1), IntV(1)>>)>>)}

FilterInit ==
    /\ heap \in FilterDocuments
    /\ init = heap
    /\ prev = heap
    /\ pc = 0
    /\ status = "ok"
    /\ lastOp = NoOp
    /\ entry \in Candidates(heap)
    /\ result = NoResult
    /\ loop = ""
    /\ cursor = 0

\* filtering the candidate nodes by query
Filter(query) ==
    /\ pc = 0
    /\ Running
    /\ Returned(_filter_nodes(heap, entry, query, 0))
    /\ pc' = 1
    /\ lastOp' = Operation("filter", query, NullV, <<>>)
    /\ UNCHANGED <<heap, prev, init, entry, loop, cursor>>

FilterNext == \E query \in FilterExprs : Filter(query)

FilterSpec == FilterInit /\ [][FilterNext]_vars

----------------------------------------------------------------------------
(* Queries: the traverser, the filter evaluator and patch() on queries that *)
(* begin with the entry symbol and on queries that do not                   *)

\* absolute queries
AbsoluteQueries ==
    {<<>>,   \* (empty)
     <<"@">>,   \* @
     <<"@", ".", "a">>,   \* @.a
     <<"a">>,   \* a
     <<".", "a">>,   \* .a
     <<"[", "0", "]">>,   \* [0]
     <<"$">>,   \* $
     <<"$", ".", "a">>,   \* $.a
     <<"$", "[", "0", "]">>}   \* $[0]

\* relative queries
RelativeQueries ==
    {<<>>,   \* (empty)
     <<"$">>,   \* $
     <<"!", "$">>,   \* !$
     <<"$", ".", "a", "=", "=", "1">>,   \* $.a==1
     <<"a", "=", "=", "1">>,   \* a==1
     <<"1", "=", "=", "1">>,   \* 1==1
     <<"=", "=", "1">>,   \* ==1
     <<"!">>,   \* !
     <<"@">>,   \* @
     <<"!", "@">>,   \* !@
     <<"@", "=", "=", "1">>}   \* @==1

\* one operation of each name on each absolute query
QueryOperations ==
    {Operation(op, path, RefV(valList), <<"@">>) :
        op \in OpNames, path \in AbsoluteQueries}

QueryNext ==
    \/ \E query \in AbsoluteQueries, allow_slice \in BOOLEAN :
           Select(query, allow_slice)
    \/ \E query \in RelativeQueries : Filter(query)
    \/ \E operation \in QueryOperations :
           pc = 0 /\ entry = RootNodes /\ Step(operation)

QuerySpec == FilterInit /\ [][QueryNext]_vars

----------------------------------------------------------------------------
(* The patch executor, one turn of a loop at a time: the loop over the      *)
(* operations, the loop of _traverse over the path of an operation and the  *)
(* loop of _filter_nodes over the expr of an assert                         *)

\* paths of several steps
LongPaths ==
    { <<"$", ".", "a", "[", "0", "]">>,              \* $.a[0]
      <<"$", ".", "b", ".", "a">>,                   \* $.b.a
      <<"$", "[", "0", "]", "[", "1", "]">>,         \* $[0][1]
      <<"$", "[", "@", "]", "[", "0", "]">>,         \* $[@][0]
      <<"$", "[", "@", ">", "1", "]">>,              \* $[@>1]
      <<"$", ".", "~", "~">> }                       \* $.~~

\* filters of several clauses
LongExprs ==
    { <<"@", "&", "&", "@">>,                                             \* @&&@
      <<"@", "[", "0", "]", "=", "=", "1", "&", "&", "@", "[", "1", "]">>, \* @[0]==1&&@[1]
      <<"@", ".", "a", "&", "&", "@", ".", "b", "&", "&", "@">>,          \* @.a&&@.b&&@
      <<"@", "=", "=", "'", "~", "'", "'", "&", "&", "@">>,              \* @=='~''&&@
      <<"@", "&", "&">> }                                                 \* @&&

TurnOperations ==
    BatchOperations
    \cup {Operation(op, path, IntV(7), <<>>) :
             op \in {"append", "set"}, path \in LongPaths \cup MalformedQueries}
    \cup {Operation("assert", <<"$">>, NullV, expr) : expr \in LongExprs}

\* the operation in hand is over: it left the document as r.heap, with the
\* exception r.err if it raised one
Ended(r) ==
    /\ Outcome(r)
    /\ pc' = pc + 1
    /\ loop' = ""
    /\ cursor' = 0
    /\ entry' = RootNodes
    /\ result' = NoResult

\* the loop lp goes on: the next turn is from end, over nodes
GoesOn(lp, nodes, end) ==
    /\ loop' = lp
    /\ entry' = nodes
    /\ cursor' = end
    /\ UNCHANGED <<heap, status, pc>>

\* _traverser, after the key k of the root was read: the loop of _traverse
\* starts after it
BeginKey(k) ==
    IF ~IsOk(k) THEN Ended(Abort(heap, k.err))
    ELSE IF k.key # <<"$">> THEN Ended(Abort(heap, "SyntaxError"))
    ELSE GoesOn("path", RootNodes, k.end) /\ UNCHANGED result

\* for operation in operations: the next operation of the batch is taken
Begin(operation) ==
    /\ Running
    /\ loop = ""
    /\ pc < MaxOps
    /\ lastOp' = operation
    /\ prev' = heap
    /\ IF operation.op \in OpNames THEN BeginKey(_get_key(operation.path, 0))
       ELSE Ended(Abort(heap, "ValueError"))
    /\ UNCHANGED init

\* a variant of PathTurned in which a turn leaves the loop at the offset it
\* started from
PathTurnedInPlace(t) ==
    IF ~IsOk(t) THEN Ended(Abort(heap, t.err))
    ELSE GoesOn("path", t.nodes, cursor) /\ UNCHANGED result

\* a turn of _traverse left t
PathTurned(t) ==
    IF ~IsOk(t) THEN Ended(Abort(heap, t.err))
    ELSE GoesOn("path", t.nodes, t.end) /\ UNCHANGED result

\* one turn of the loop of _traverse over the path of the operation in hand
PathTurn ==
    /\ Running
    /\ loop = "path"
    /\ Ch(lastOp.path, cursor) \in {".", "["}
    /\ PathTurned(TraverseTurn(heap, entry, lastOp.path, cursor, FALSE))
    /\ UNCHANGED <<lastOp, prev, init>>

\* _traverser returned t: the loop of the operation over the nodes, or for an
\* assert the loop of _filter_nodes over its expr, with new_nodes held in
\* result
PathResolved(t) ==
    IF lastOp.op # "assert" THEN Ended(ApplyNodes(heap, lastOp, t))
    ELSE IF ~IsOk(t) THEN Ended(Abort(heap, t.err))
    ELSE /\ GoesOn("expr", RootNodes, 0)
         /\ result' = [NoResult EXCEPT !.t = "nodes", !.s = t.nodes]

\* the last turn of the loop of _traverse, and what the operation does with
\* the nodes
PathLast ==
    /\ Running
    /\ loop = "path"
    /\ Ch(lastOp.path, cursor) \notin {".", "["}
    /\ PathResolved(TraverserEnd(lastOp.path,
                                 TraverseLast(heap, entry, cursor,
                                              lastOp.op \in {"del", "set"})))
    /\ UNCHANGED <<lastOp, prev, init>>

\* a turn of _filter_nodes left f: after "&&" the loop goes on, and else the
\* assert compares what it returns
ExprTurned(f) ==
    IF ~IsOk(f) THEN Ended(Abort(heap, f.err))
    ELSE IF Sl(lastOp.expr, f.end, f.end + 2) = <<"&", "&">>
    THEN GoesOn("expr", f.nodes, f.end + 2) /\ UNCHANGED result
    ELSE Ended(AssertNodes(heap, lastOp,
                           [Raise("ok") EXCEPT !.nodes = result.s], f))

\* one turn of the loop of _filter_nodes over the expr of the assert in hand
ExprTurn ==
    /\ Running
    /\ loop = "expr"
    /\ ExprTurned(FilterTurn(heap, entry, lastOp.expr, cursor))
    /\ UNCHANGED <<lastOp, prev, init>>

\* patch() on a batch of at most MaxOps operations, turn by turn
TurnNext ==
    \/ \E operation \in TurnOperations : Begin(operation)
    \/ PathTurn
    \/ PathLast
    \/ ExprTurn
    \/ loop = "" /\ Return

\* a loop is in hand: one of PathTurn, PathLast and ExprTurn can be taken, and
\* each of them changes pc or cursor
InLoop == Running /\ loop # ""

\* weak fairness of the turns of a loop, WF_vars(PathTurn \/ PathLast \/
\* ExprTurn), with InLoop written for ENABLED: a loop in hand takes its next
\* turn
LoopFair == []<>(~InLoop) \/ []<><<PathTurn \/ PathLast \/ ExprTurn>>_vars

\* patch() is one thread that runs on: a loop in hand takes its next turn,
\* and with no operation in hand and none taken, patch() returns
TurnSpec ==
    Init /\ [][TurnNext]_vars /\ LoopFair /\ WF_vars(loop = "" /\ Return)

----------------------------------------------------------------------------
(* Properties of the patch executor *)

\* an exception left patch()
Failed == status \notin {"ok", "returned"}

\* no exception left patch()
Succeeded == status \in {"ok", "returned"}

\* the container of the document that every node of ns addresses, 0 when
\* there is none
OneTarget(ns) ==
    IF /\ ns # <<>>
       /\ ns[1].target # rootId
       /\ \A i \in 1..Len(ns) : ns[i].target = ns[1].target
    THEN ns[1].target ELSE 0

\* a node addresses entries of its container: its index is in range, its key
\* is present, or it is a slice
Addresses(h, node) ==
    IF node.key.kt = "slice" THEN SliceStep(node.key) # 0 ELSE Present(h, node)

\* the 0-based positions of the entries a node addresses in its container
MatchedAt(h, node) ==
    IF node.key.kt = "slice"
    THEN SeqToSet(SliceIndices(Len(h[node.target].items), node.key))
    ELSE IF h[node.target].kind = "dict"
    THEN {KeyPos(h[node.target].keys, node.key.name, 1) - 1}
    ELSE {ListPos(h[node.target], node.key.i) - 1}

\* the 0-based positions of the entries the nodes of ns address
Matched(h, ns) == UNION {MatchedAt(h, ns[i]) : i \in 1..Len(ns)}

\* the nodes the path of the last operation resolves to in the document the
\* operation started from
Resolved == _traverser(prev, RootNodes, lastOp.path, lastOp.op \in {"del", "set"})

\* the last operation matched entries of one container of the document
MatchesOne ==
    /\ IsOk(Resolved)
    /\ OneTarget(Resolved.nodes) # 0
    /\ \A i \in 1..Len(Resolved.nodes) : Addresses(prev, Resolved.nodes[i])
    /\ Matched(prev, Resolved.nodes) # {}

\* a single del operation has matched entries of one container
DelCase == pc = 1 /\ lastOp.op = "del" /\ MatchesOne

\* C1: a del whose path matches entries of one container (an index or a
\* property, a slice, several filter matches) succeeds and leaves the document
\* with exactly the entries matched before the operation removed: the other
\* entries of the container keep their values and their order, and every
\* other container is as it was.
DelRemovesMatched ==
    DelCase =>
        /\ Succeeded
        /\ heap = [prev EXCEPT
               ![OneTarget(Resolved.nodes)].keys =
                   DropAt(@, Matched(prev, Resolved.nodes), 1),
               ![OneTarget(Resolved.nodes)].items =
                   DropAt(@, Matched(prev, Resolved.nodes), 1)]

\* a del has removed several filter matches from one container
DelRemovesMatchedWitness ==
    /\ DelCase
    /\ status = "ok"
    /\ Len(Resolved.nodes) >= 2
    /\ Len(heap[OneTarget(Resolved.nodes)].items) >= 1

\* seq with one copy of v before each element at a 0-based position of P,
\* from position i on
RECURSIVE Interleave(_, _, _, _)
Interleave(seq, P, v, i) ==
    IF i > Len(seq) THEN <<>>
    ELSE (IF (i - 1) \in P THEN <<v>> ELSE <<>>) \o <<seq[i]>>
         \o Interleave(seq, P, v, i + 1)

\* a single insert operation has matched distinct indices of one list
InsertCase ==
    /\ pc = 1
    /\ lastOp.op = "insert"
    /\ MatchesOne
    /\ prev[OneTarget(Resolved.nodes)].kind = "list"
    /\ Cardinality(Matched(prev, Resolved.nodes)) = Len(Resolved.nodes)

\* C2: an insert whose path matches indices i1 < .. < in of one list succeeds
\* and leaves one copy of the value immediately before each element matched
\* before the operation; the list is n longer and its elements keep their
\* order.
InsertBeforeMatched ==
    InsertCase =>
        /\ Succeeded
        /\ Len(heap[OneTarget(Resolved.nodes)].items)
               = Len(prev[OneTarget(Resolved.nodes)].items) + Len(Resolved.nodes)
        /\ heap = [prev EXCEPT
               ![OneTarget(Resolved.nodes)].items =
                   Interleave(@, Matched(prev, Resolved.nodes), lastOp.value, 1)]

\* an insert has put a copy before each of several matched elements
InsertBeforeMatchedWitness ==
    /\ InsertCase
    /\ status = "ok"
    /\ Len(Resolved.nodes) >= 2

\* the last operation is a del or an insert at the root
RootCase == pc >= 1 /\ lastOp.op \in {"del", "insert"} /\ lastOp.path = <<"$">>

\* C3: a del or an insert whose path is "$" raises ValueError, whatever the
\* document, and leaves the document as the operation found it.
RootIsForbidden == RootCase => status = "ValueError" /\ heap = prev

\* the second operation of a batch was an insert at the root, and failed
RootIsForbiddenWitness ==
    /\ RootCase
    /\ pc = 2
    /\ lastOp.op = "insert"
    /\ status = "ValueError"
    /\ prev # init

\* C4: no rollback, and the first failure ends the batch: when an operation
\* fails, the document is what that operation made of the document its
\* predecessors left, and no step follows a failure.
NoRollback ==
    /\ [](Failed => heap = ApplyOperation(prev, lastOp).heap)
    /\ [][status = "ok"]_vars

\* the second operation of a batch failed after the first changed the document
NoRollbackWitness ==
    /\ Failed
    /\ pc = 2
    /\ prev # init
    /\ heap # init

\* C6: an operation whose op is none of the nine names raises ValueError and
\* leaves the document as it found it.
UnknownOpFails ==
    (pc >= 1 /\ lastOp.op \notin OpNames) => status = "ValueError" /\ heap = prev

\* an operation of an unknown name failed on a document its predecessor changed
UnknownOpFailsWitness ==
    /\ pc = 2
    /\ lastOp.op \notin OpNames
    /\ status = "ValueError"
    /\ prev # init

\* the nodes of the path of an assert that pass its expr, as a relative filter
\* over those nodes
AssertPassing == _filter_nodes(prev, Resolved.nodes, lastOp.expr, 0)

\* a single assert whose path resolves and whose expr is a filter
AssertCase ==
    /\ pc = 1
    /\ lastOp.op = "assert"
    /\ IsOk(Resolved)
    /\ IsOk(AssertPassing)
    /\ AssertPassing.end = Len(lastOp.expr)

\* C5: an assert filters the nodes its path resolves to, not the root node;
\* it leaves the document as it is, and succeeds exactly when every resolved
\* node passes the filter.
AssertFiltersResolved ==
    AssertCase =>
        /\ heap = prev
        /\ Succeeded <=> AssertPassing.nodes = Resolved.nodes

----------------------------------------------------------------------------
(* Properties of the traverser *)

\* the indices of the index queries of SelectSpec
SelectIdx == (0 - MaxIdx)..MaxIdx \cup WideIdx

\* the document is a list
ListDocument(h) ==
    h[rootId].items[1].t = "ref" /\ h[h[rootId].items[1].n].kind = "list"

\* "$[i]" has been selected from the root node of a list document
IndexCase(i) ==
    /\ pc >= 1
    /\ lastOp.op = "select"
    /\ lastOp.path = IndexQuery(i)
    /\ ListDocument(init)

\* C7: for a list document d and an integer i, selecting "$[i]" from the root
\* node ([d], 0) returns the one node (d, i), d being the document's own list,
\* whether or not i is within the bounds of d.
IndexAddresses ==
    \A i \in SelectIdx :
        IndexCase(i) =>
            /\ pc = 1 => status = "ok"
            /\ result = <<Node(init[rootId].items[1].n, IntKey(i))>>

\* an index outside the bounds of the document has been selected
IndexAddressesWitness ==
    \E i \in SelectIdx :
        /\ IndexCase(i)
        /\ pc = 1
        /\ status = "ok"
        /\ ~InRange(init[docId], i)
        /\ Len(init[docId].items) >= 1

\* what the comparison v op n of two integers is
Holds(op, v, n) ==
    CASE op = "lt" -> v < n  [] op = "le" -> v <= n
      [] op = "eq" -> v = n  [] op = "ne" -> v # n
      [] op = "ge" -> v >= n [] op = "gt" -> v > n

\* the document is a container that holds integers only
IntContainer(h) ==
    /\ h[rootId].items[1] = RefV(docId)
    /\ \A i \in 1..Len(h[docId].items) : h[docId].items[i].t = "int"

\* the nodes (document, key), in the document's order from position i on, whose
\* values v satisfy v op n
RECURSIVE Passing(_, _, _, _)
Passing(h, op, n, i) ==
    IF i > Len(h[docId].items) THEN <<>>
    ELSE (IF Holds(op, h[docId].items[i].n, n)
          THEN <<Node(docId, KeysOf(h[docId])[i])>> ELSE <<>>)
         \o Passing(h, op, n, i + 1)

\* C8: selecting "$[@ op n]" on a container of integers returns the nodes
\* (container, key) whose values pass the filter, in the container's order,
\* and setting every returned location to None changes exactly those entries
\* of the document.
FilterSelects ==
    \A op \in CmpOps, n \in Literals, spaced \in BOOLEAN :
        (/\ lastOp.op = "select"
         /\ lastOp.path = BracketQuery(CmpQuery(op, n, spaced))
         /\ IntContainer(init))
        => /\ pc = 1 => status = "ok" /\ result = Passing(init, op, n, 1)
           /\ pc = 2 =>
                  /\ status = "ok"
                  /\ heap = [init EXCEPT ![docId].items =
                                [i \in 1..Len(@) |->
                                    IF Holds(op, @[i].n, n) THEN NullV ELSE @[i]]]

----------------------------------------------------------------------------
(* Properties of the filter evaluator *)

\* one candidate node has been filtered, its key being of the kind its
\* container takes
FilterCase ==
    /\ pc = 1
    /\ lastOp.op = "filter"
    /\ Len(entry) = 1
    /\ _check_key(heap[entry[1].target], entry[1].key, FALSE) = "ok"

\* C9: "@" keeps a candidate node exactly when its key exists in its
\* container, and "!@" keeps it exactly when the key does not exist.
PresenceKeeps ==
    FilterCase =>
        /\ lastOp.path = <<"@">> =>
               /\ status = "ok"
               /\ result = IF Present(heap, entry[1]) THEN entry ELSE <<>>
        /\ lastOp.path = <<"!", "@">> =>
               /\ status = "ok"
               /\ result = IF Present(heap, entry[1]) THEN <<>> ELSE entry

\* the value held at a node whose key exists
ValueAt(h, node) == GetItem(h[node.target], node.key).val

\* C10: for an integer v held at the candidate node and an integer literal n,
\* "@ op n" keeps the node exactly when v op n holds, for each of the six
\* operators, "<=" and ">=" being read as one operator.
ComparisonKeeps ==
    \A op \in CmpOps, n \in Literals :
        (/\ FilterCase
         /\ lastOp.path = CmpQuery(op, n, FALSE)
         /\ Present(heap, entry[1])
         /\ ValueAt(heap, entry[1]).t = "int")
        => /\ status = "ok"
           /\ result = IF Holds(op, ValueAt(heap, entry[1]).n, n)
                       THEN entry ELSE <<>>

\* what filtering the candidate nodes by query returns or raises
Filtered(query) == _filter_nodes(heap, entry, query, 0)

\* the last filter returned or raised what r does
SameAs(r) == status = r.err /\ result = r.nodes

\* the candidate nodes have been filtered by query
FilteredBy(query) == pc = 1 /\ lastOp.op = "filter" /\ lastOp.path = query

\* C11: spaces around a comparison operator and around "&&" do not change the
\* result: a filter written with them keeps the same nodes as the filter
\* written without, for every candidate list, and neither is rejected.
SpacesIgnored ==
    /\ \A op \in CmpOps, n \in Literals :
           FilteredBy(CmpQuery(op, n, TRUE)) =>
               /\ status # "SyntaxError"
               /\ SameAs(Filtered(CmpQuery(op, n, FALSE)))
    /\ \A cs \in Chains :
           FilteredBy(AndQuery(cs, TRUE)) =>
               /\ status # "SyntaxError"
               /\ SameAs(Filtered(AndQuery(cs, FALSE)))

\* clause keeps the candidate node
Keeps(h, node, clause) ==
    /\ IsOk(_filter_nodes(h, <<node>>, clause, 0))
    /\ _filter_nodes(h, <<node>>, clause, 0).nodes = <<node>>

\* what the clauses of cs return or raise, each filtering the nodes the one
\* before it kept
RECURSIVE Narrowed(_, _, _)
Narrowed(h, r, cs) ==
    IF cs = <<>> \/ ~IsOk(r) THEN r
    ELSE Narrowed(h, _filter_nodes(h, r.nodes, Head(cs), 0), Tail(cs))

NegatedComparisonFails ==
    \A query \in NegatedComparisons :
        FilteredBy(query) => status = "SyntaxError"

\* s begins with the character c
BeginsWith(s, c) == s # <<>> /\ Head(s) = c

\* a relative query without the "!" it may begin with
KeyChain(s) == IF BeginsWith(s, "!") THEN Tail(s) ELSE s

\* C14: an absolute query that does not begin with "$", the empty query and
\* one that begins with "@" too, raises SyntaxError, selected on its own or as
\* the path of an operation, which then leaves the document as it found it; a
\* relative query whose key chain does not begin with "@" raises SyntaxError.
EntrySymbolExpected ==
    /\ (pc = 1 /\ lastOp.op = "select" /\ ~BeginsWith(lastOp.path, "$"))
           => status = "SyntaxError"
    /\ (pc = 1 /\ lastOp.op \in OpNames /\ ~BeginsWith(lastOp.path, "$"))
           => status = "SyntaxError" /\ heap = prev
    /\ (pc = 1 /\ lastOp.op = "filter" /\ ~BeginsWith(KeyChain(lastOp.path), "@"))
           => status = "SyntaxError"

\* a query that begins with "@" has been selected from several nodes
EntrySymbolExpectedWitness ==
    /\ pc = 1
    /\ lastOp.op = "select"
    /\ BeginsWith(lastOp.path, "@")
    /\ status = "SyntaxError"
    /\ Len(entry) >= 2

\* C15: with slices allowed, a bracket "[start:stop:step]" whose start, stop
\* or step is left out is accepted: "$[:]", "$[1:]", "$[:1]" and "$[::-1]"
\* select from the root node of a list document the one node (document,
\* slice).
OpenSliceAccepted ==
    \A query \in OpenSliceQueries :
        (/\ pc = 1
         /\ lastOp.op = "select"
         /\ lastOp.path = query
         /\ lastOp.value = BoolV(TRUE)
         /\ ListDocument(init))
        => /\ status = "ok"
           /\ Len(result) = 1
           /\ result[1].target = init[rootId].items[1].n
           /\ result[1].key.kt = "slice"

\* C16: an index, a start, a stop or a step of a query that is beyond the
\* largest index (sys.maxsize) raises SyntaxError, whatever the document, and
\* is not used as a key.
TooBigRejected ==
    \A query \in TooBigQueries :
        (pc = 1 /\ lastOp.op = "select" /\ lastOp.path = query)
        => status = "SyntaxError" /\ result = <<>>

\* C17: the literals Infinity and -Infinity in a comparison of a filter raise
\* SyntaxError and give no value to compare with, there being no
\* configuration that allows them.
InfinityRejected ==
    \A query \in InfinityQueries :
        FilteredBy(query) => status = "SyntaxError" /\ result = <<>>

\* what the query prefix resolves to in the document selecting started from
Prefix(prefix) == _traverser(init, RootNodes, prefix, TRUE)

\* the query prefix resolves to one node, whose key exists
PrefixFound(prefix) ==
    /\ IsOk(Prefix(prefix))
    /\ Len(Prefix(prefix).nodes) = 1
    /\ Present(init, Prefix(prefix).nodes[1])

\* the step after the query prefix addresses a container of the wrong kind: a
\* property a list, an index or a slice a dict
Mismatch(prefix, step) ==
    /\ PrefixFound(prefix)
    /\ \/ /\ step \in PropertySteps
          /\ IsList(init, ValueAt(init, Prefix(prefix).nodes[1]))
       \/ /\ step \in BracketSteps
          /\ IsDict(init, ValueAt(init, Prefix(prefix).nodes[1]))

Left(r) ==
    /\ heap = r.heap
    /\ Failed <=> r.err # "ok"
    /\ Failed => status = r.err

\* C19: the path of each operation is resolved against the document the
\* operations before it left: one call with a batch leaves what a call with
\* the last operation leaves of the document that a call with the operations
\* before it left, and a call with one operation leaves what that operation
\* makes of the document.
BatchComposes ==
    /\ pc >= 1 => Left(PatchAll(Done(Rewrapped(prev)), <<lastOp>>))
    /\ pc = 1 => Left(PatchAll(Done(init), <<lastOp>>))
    /\ pc = 2 =>
           \E operation \in BatchOperations :
               /\ PatchAll(Done(init), <<operation>>) = Done(prev)
               /\ Left(PatchAll(Done(init), <<operation, lastOp>>))
               /\ Left(PatchAll(Done(Rewrapped(PatchAll(Done(init),
                                                        <<operation>>).heap)),
                                <<lastOp>>))

\* the second operation of a batch changed a document the first had changed
BatchComposesWitness ==
    /\ pc = 2
    /\ status = "ok"
    /\ prev # init
    /\ heap # prev
    /\ heap # init
    /\ lastOp.op \in {"del", "insert", "set"}

\* the candidate node holds a dict of integers
HoldsInts(h, node) ==
    /\ _check_key(h[node.target], node.key, FALSE) = "ok"
    /\ Present(h, node)
    /\ IsDict(h, ValueAt(h, node))
    /\ \A i \in 1..Len(h[ValueAt(h, node).n].items) :
           h[ValueAt(h, node).n].items[i].t = "int"

\* the dict d has the keys k1 and k2, and d[k1] op d[k2] holds
PairHolds(d, k1, op, k2) ==
    /\ HasKey(d, k1)
    /\ HasKey(d, k2)
    /\ Holds(op, d.items[KeyPos(d.keys, k1, 1)].n, d.items[KeyPos(d.keys, k2, 1)].n)

\* C20: for candidate nodes that hold dicts of integers, "@.k1 op @.k2" keeps
\* a candidate exactly when its dict has both keys and its own value at k1
\* compares true with its own value at k2, also when candidates before it
\* lack k1.
PairComparesOwn ==
    \A k1 \in PairKeys, op \in PairOps, k2 \in PairKeys :
        (/\ FilteredBy(PairQuery(k1, op, k2))
         /\ \A i \in 1..Len(entry) : HoldsInts(heap, entry[i]))
        => /\ status = "ok"
           /\ result = SelectSeq(entry,
                  LAMBDA node : PairHolds(heap[ValueAt(heap, node).n], k1, op, k2))

\* the paths of the model that end in a slice
SlicePaths == SliceQueries \cup {<<"$", ".", "a", "[", "0", ":", "1", "]">>}

\* the operations that do not allow slices
NoSliceOps ==
    {"append", "assert", "clear", "extend", "insert", "reverse", "update"}

\* a single operation whose path ends in a slice, the steps before the slice
\* resolving in the document
SliceCase ==
    /\ pc = 1
    /\ lastOp.path \in SlicePaths
    /\ _traverser(prev, RootNodes, lastOp.path, TRUE).err \in {"ok", "TypeError"}

\* C21: only del and set take a slice: an append, assert, clear, extend,
\* insert, reverse or update whose path ends in a slice raises TypeError and
\* leaves the document as it found it.
SliceOnlyDelSet ==
    (SliceCase /\ lastOp.op \in NoSliceOps) => status = "TypeError" /\ heap = prev

\* a reverse whose path is a slice of a list of lists raised TypeError
SliceOnlyDelSetWitness ==
    /\ SliceCase
    /\ lastOp.op = "reverse"
    /\ IsOk(_traverser(prev, RootNodes, lastOp.path, TRUE))
    /\ Len(prev) > docId
    /\ prev[docId].kind = "list"
    /\ status = "TypeError"

\* the kind Python compares a value as: bool, int and float compare as numbers
Kind(h, v) ==
    CASE v.t = "null" -> "null"
      [] v.t = "str" -> "str"
      [] v.t = "ref" -> h[v.n].kind
      [] OTHER -> "number"

\* C22: in a comparison of a filter, "==" and "!=" never raise, and between
\* values of two kinds "==" is false and "!=" is true; "<", "<=", ">=" and
\* ">" between values of two kinds raise TypeError.
ComparisonKinds ==
    \A op \in CmpOps, lit \in KindLiterals :
        (/\ FilterCase
         /\ lastOp.path = KindQuery(op, lit.text)
         /\ Present(heap, entry[1]))
        => /\ op \in {"eq", "ne"} => status = "ok"
           /\ Kind(heap, ValueAt(heap, entry[1])) # lit.kind =>
                  CASE op = "eq" -> status = "ok" /\ result = <<>>
                    [] op = "ne" -> status = "ok" /\ result = entry
                    [] OTHER -> status = "TypeError"

\* a single update whose path resolves to one node, whose key exists
UpdateCase ==
    /\ pc = 1
    /\ lastOp.op = "update"
    /\ IsOk(Resolved)
    /\ Len(Resolved.nodes) = 1
    /\ Present(prev, Resolved.nodes[1])

\* the value the update is applied to
Updated == ValueAt(prev, Resolved.nodes[1])

\* the dict d with the entries of the dict value merged in: the keys of d in
\* their order, then the keys of value that d lacks in value's order; a key
\* of value has value's item, another key the item it had
Merged(d, value) ==
    [d EXCEPT
        !.keys = d.keys
                 \o SelectSeq(value.keys, LAMBDA k : ~HasKey(d, k)),
        !.items = [i \in 1..Len(d.keys) |->
                      IF HasKey(value, d.keys[i])
                      THEN value.items[KeyPos(value.keys, d.keys[i], 1)]
                      ELSE d.items[i]]
                  \o [i \in 1..Len(SelectSeq(value.keys, LAMBDA k : ~HasKey(d, k))) |->
                         value.items[KeyPos(value.keys,
                             SelectSeq(value.keys, LAMBDA k : ~HasKey(d, k))[i], 1)]]]

\* C23: an update of a dict with a dict value merges the entries of value
\* into it: a key that is present keeps its position and takes the new value,
\* the other keys of value are appended in value's order, and nothing else
\* changes; an update of a value that is no dict raises TypeError and leaves
\* the document as it found it.
UpdateMerges ==
    UpdateCase =>
        /\ (IsDict(prev, Updated) /\ lastOp.value = RefV(valDict)) =>
               /\ Succeeded
               /\ heap = [prev EXCEPT ![Updated.n] = Merged(@, prev[valDict])]
        /\ ~IsDict(prev, Updated) => status = "TypeError" /\ heap = prev

\* an update replaced the value of a key and appended a key after the others
UpdateMergesWitness ==
    /\ UpdateCase
    /\ IsDict(prev, Updated)
    /\ lastOp.value = RefV(valDict)
    /\ status = "ok"
    /\ Len(prev[Updated.n].keys) = 2
    /\ Len(heap[Updated.n].keys) = 3
    /\ heap[Updated.n].keys[2] = <<"b">>

\* a step changes the root wrapper only by a set whose path is "$", which puts
\* its value there
RootReplaced ==
    heap'[rootId] # heap[rootId] =>
        /\ lastOp'.op = "set"
        /\ lastOp'.path = <<"$">>
        /\ status' = "ok"
        /\ heap'[rootId].items = <<lastOp'.value>>

\* C24: the root wrapper holds exactly one element after every operation;
\* only a set whose path is "$" replaces that element, by its value, and
\* patch() returns the element: the value of the last such set, or else the
\* document it was given.
RootKept ==
    /\ [](Len(heap[rootId].items) = 1)
    /\ [][RootReplaced]_vars
    /\ [](status = "returned" => result = heap[rootId].items[1])

\* patch() returned the value of a set at the root, which an operation after
\* the set changed
RootKeptWitness ==
    /\ status = "returned"
    /\ pc = 2
    /\ result = RefV(valList)
    /\ init[rootId].items[1] # RefV(valList)
    /\ heap[valList] # init[valList]
    /\ lastOp.op # "set"

\* a malformed query was selected from the root node
MalformedCase == pc = 1 /\ lastOp.op = "select" /\ lastOp.path \in MalformedQueries

\* C25: selecting a malformed query (unclosed bracket, unexpected end, text
\* left after the last step) fails with a syntax error for every document; no
\* type error or missing-key error of an earlier step pre-empts it.
SyntaxErrorFirst == MalformedCase => status = "SyntaxError"

\* every turn of the key reader and of the string reader over s goes on from
\* beyond the offset it started from: from two characters, the escape, after
\* the chunk it matched
ReadersAdvance(s) ==
    \A end \in 0..Len(s) :
        /\ _match_key_chunk(s, end) + 2 > end
        /\ _match_str_chunk(s, end) + 2 > end

\* a turn after which a loop goes on ends beyond the offset it started from,
\* within the query
LoopAdvances ==
    (loop' = loop /\ loop # "") =>
        /\ cursor' > cursor
        /\ cursor' <= Len(IF loop = "path" THEN lastOp.path ELSE lastOp.expr)

\* an operation is taken from the batch once: when it is over, pc counts it
OperationOnce ==
    /\ pc' # pc => pc' = pc + 1 /\ loop' = ""
    /\ lastOp' # lastOp => loop = "" /\ pc' <= pc + 1

\* C26: every patch call terminates, returning the document or failing with
\* an error: each turn of the loops of the traverser and of the filter
\* evaluator, and of the key and string readers, ends beyond the offset it
\* started from, and each operation of the batch is processed once.
Terminates ==
    /\ [](ReadersAdvance(lastOp.path) /\ ReadersAdvance(lastOp.expr))
    /\ [][LoopAdvances]_vars
    /\ [][OperationOnce]_vars
    /\ [](pc <= MaxOps)
    /\ <>(status # "ok")

\* patch() returned after an assert whose expr holds three clauses
TerminatesWitness ==
    /\ status = "returned"
    /\ pc = MaxOps
    /\ lastOp.op = "assert"
    /\ lastOp.expr = <<"@", ".", "a", "&", "&", "@", ".", "b", "&", "&", "@">>

\* the operation taken failed with a syntax, type or value error
OperationFailed ==
    pc = 1 /\ lastOp.op \in OpNames
           /\ status \in {"SyntaxError", "TypeError", "ValueError"}

\* C27: an operation is all-or-nothing: when it fails with a syntax, type or
\* value error it has made no change to the document, also when its path
\* matched several nodes and only a later one violates its precondition.
AllOrNothing == OperationFailed => heap = prev

\* the document of the heap h is a list of at least two items
ListOfSeveral(h) ==
    /\ h[rootId].items[1].t = "ref"
    /\ h[h[rootId].items[1].n].kind = "list"
    /\ Len(h[h[rootId].items[1].n].items) >= 2

\* what the document of the heap h holds at $[i]: a scalar, or the keys and
\* items of a container
ContentAt(h, i) ==
    IF h[h[rootId].items[1].n].items[i + 1].t = "ref"
    THEN h[h[h[rootId].items[1].n].items[i + 1].n]
    ELSE h[h[rootId].items[1].n].items[i + 1]

\* the second operation of a batch appended through $[0] to a document that
\* is a list of several items
LaterAppend ==
    /\ pc = 2
    /\ Succeeded
    /\ lastOp.op = "append"
    /\ lastOp.path = IndexQuery(0)
    /\ ListOfSeveral(prev)

\* C28: the document stays a tree: the values an operation wrote at several
\* matched locations are independent, so a later append through $[0] does not
\* change what the document holds at $[1].
WrittenApart == LaterAppend => ContentAt(heap, 1) = ContentAt(prev, 1)

====
